---- MODULE Spec2Model ----
(***************************************************************************)
(* Model of the data-ingestion pipeline of learning-galaxy-v5.jsx:         *)
(* parseCSV, the localStorage cache (getCacheKey, getCachedData,           *)
(* setCachedData), fetchWithRetry and the useSheetData hook.               *)
(*                                                                         *)
(* JavaScript strings that the code scans character by character (CSV      *)
(* text, cells, the gameType filter) are sequences of one-character        *)
(* strings.  Strings the code only passes around or compares as a whole    *)
(* (URLs as React props, error messages) are TLA+ strings.                 *)
(***************************************************************************)
EXTENDS Integers, Sequences, FiniteSets, TLC

QUOTE == "\""
COMMA == ","
LF == "\n"
CR == "\r"

\* White space removed by String.prototype.trim (the characters that occur
\* in the modelled documents).
WhiteSpace == {" ", "\t", LF, CR}

UpperCase == <<"A", "B", "C", "D", "E", "F", "G", "H", "I", "J", "K", "L", "M",
               "N", "O", "P", "Q", "R", "S", "T", "U", "V", "W", "X", "Y", "Z">>
LowerCase == <<"a", "b", "c", "d", "e", "f", "g", "h", "i", "j", "k", "l", "m",
               "n", "o", "p", "q", "r", "s", "t", "u", "v", "w", "x", "y", "z">>

\* String.prototype.toLowerCase, character by character.
toLowerCase(s) ==
  [i \in 1..Len(s) |->
     IF \E k \in 1..26 : UpperCase[k] = s[i]
       THEN LowerCase[CHOOSE k \in 1..26 : UpperCase[k] = s[i]]
       ELSE s[i]]

RECURSIVE trimStart(_)
trimStart(s) ==
  IF s # <<>> /\ Head(s) \in WhiteSpace THEN trimStart(Tail(s)) ELSE s

RECURSIVE trimEnd(_)
trimEnd(s) ==
  IF s # <<>> /\ s[Len(s)] \in WhiteSpace
    THEN trimEnd(SubSeq(s, 1, Len(s) - 1))
    ELSE s

\* String.prototype.trim.
trim(s) == trimEnd(trimStart(s))

(***************************************************************************)
(* parseCSV                                                                *)
(***************************************************************************)

\* cleanValue: trim, then strip one pair of surrounding quotes.
cleanValue(value) ==
  LET v == trim(value)
  IN IF v # <<>> /\ v[1] = QUOTE /\ v[Len(v)] = QUOTE
       THEN SubSeq(v, 2, Len(v) - 1)
       ELSE v

\* The while loop of parseRow: i is the 1-based scan position.
RECURSIVE parseRowLoop(_, _, _, _, _)
parseRowLoop(row, i, current, inQuotes, values) ==
  IF i > Len(row)
    THEN Append(values, cleanValue(current))
    ELSE
      LET char == row[i]
          nextIsQuote == i + 1 <= Len(row) /\ row[i + 1] = QUOTE
      IN IF char = QUOTE
           THEN IF inQuotes /\ nextIsQuote
                  THEN parseRowLoop(row, i + 2, Append(current, QUOTE), inQuotes, values)
                  ELSE parseRowLoop(row, i + 1, current, ~inQuotes, values)
           ELSE IF char = COMMA /\ ~inQuotes
                  THEN parseRowLoop(row, i + 1, <<>>, inQuotes,
                                    Append(values, cleanValue(current)))
                  ELSE parseRowLoop(row, i + 1, Append(current, char), inQuotes, values)

parseRow(row) == parseRowLoop(row, 1, <<>>, FALSE, <<>>)

\* A variant of splitRowsLoop that keeps a line of white space as a row.
RECURSIVE splitRowsLoopKeepingBlank(_, _, _, _, _)
splitRowsLoopKeepingBlank(csv, i, currentRow, inQuotes, rows) ==
  IF i > Len(csv)
    THEN IF currentRow # <<>> THEN Append(rows, currentRow) ELSE rows
    ELSE
      LET char == csv[i]
          hasNext == i + 1 <= Len(csv)
      IN IF char = QUOTE
           THEN IF inQuotes /\ hasNext /\ csv[i + 1] = QUOTE
                  THEN splitRowsLoopKeepingBlank(csv, i + 2,
                         currentRow \o <<QUOTE, QUOTE>>, inQuotes, rows)
                  ELSE splitRowsLoopKeepingBlank(csv, i + 1, Append(currentRow, char),
                                                 ~inQuotes, rows)
           ELSE IF (char = LF \/ char = CR) /\ ~inQuotes
                  THEN splitRowsLoopKeepingBlank(csv,
                         IF char = CR /\ hasNext /\ csv[i + 1] = LF THEN i + 2 ELSE i + 1,
                         <<>>, inQuotes,
                         IF currentRow # <<>> THEN Append(rows, currentRow) ELSE rows)
                  ELSE splitRowsLoopKeepingBlank(csv, i + 1, Append(currentRow, char),
                                                 inQuotes, rows)

\* A variant of splitRowsLoop in which a line break ends the row inside quotes
\* too.
RECURSIVE splitRowsLoopBreakingInQuotes(_, _, _, _, _)
splitRowsLoopBreakingInQuotes(csv, i, currentRow, inQuotes, rows) ==
  IF i > Len(csv)
    THEN IF trim(currentRow) # <<>> THEN Append(rows, currentRow) ELSE rows
    ELSE
      LET char == csv[i]
          hasNext == i + 1 <= Len(csv)
      IN IF char = QUOTE
           THEN IF inQuotes /\ hasNext /\ csv[i + 1] = QUOTE
                  THEN splitRowsLoopBreakingInQuotes(csv, i + 2,
                         currentRow \o <<QUOTE, QUOTE>>, inQuotes, rows)
                  ELSE splitRowsLoopBreakingInQuotes(csv, i + 1, Append(currentRow, char),
                                                     ~inQuotes, rows)
           ELSE IF char = LF \/ char = CR
                  THEN splitRowsLoopBreakingInQuotes(csv,
                         IF char = CR /\ hasNext /\ csv[i + 1] = LF THEN i + 2 ELSE i + 1,
                         <<>>, FALSE,
                         IF trim(currentRow) # <<>> THEN Append(rows, currentRow) ELSE rows)
                  ELSE splitRowsLoopBreakingInQuotes(csv, i + 1, Append(currentRow, char),
                                                     inQuotes, rows)

\* The row-splitting for loop of parseCSV, followed by the push of the last row.
RECURSIVE splitRowsLoop(_, _, _, _, _)
splitRowsLoop(csv, i, currentRow, inQuotes, rows) ==
  IF i > Len(csv)
    THEN IF trim(currentRow) # <<>> THEN Append(rows, currentRow) ELSE rows
    ELSE
      LET char == csv[i]
          hasNext == i + 1 <= Len(csv)
      IN IF char = QUOTE
           THEN IF inQuotes /\ hasNext /\ csv[i + 1] = QUOTE
                  THEN splitRowsLoop(csv, i + 2, currentRow \o <<QUOTE, QUOTE>>,
                                     inQuotes, rows)
                  ELSE splitRowsLoop(csv, i + 1, Append(currentRow, char),
                                     ~inQuotes, rows)
           ELSE IF (char = LF \/ char = CR) /\ ~inQuotes
                  THEN splitRowsLoop(csv,
                         IF char = CR /\ hasNext /\ csv[i + 1] = LF THEN i + 2 ELSE i + 1,
                         <<>>, inQuotes,
                         IF trim(currentRow) # <<>> THEN Append(rows, currentRow) ELSE rows)
                  ELSE splitRowsLoop(csv, i + 1, Append(currentRow, char), inQuotes, rows)

splitRows(csv) == splitRowsLoop(csv, 1, <<>>, FALSE, <<>>)

\* A variant of rowObject in which the first column of a name wins.
rowObjectFirstWins(headers, values) ==
  [h \in {headers[i] : i \in 1..Len(headers)} |->
     LET first == CHOOSE i \in 1..Len(headers) :
                    /\ headers[i] = h
                    /\ \A j \in 1..Len(headers) : headers[j] = h => i <= j
     IN IF first <= Len(values) THEN values[first] ELSE <<>>]

\* A variant of rowObject that gives a short row only the keys it has values
\* for.
rowObjectWithoutMissing(headers, values) ==
  [h \in {headers[i] : i \in 1..Len(headers) \cap 1..Len(values)} |->
     LET last == CHOOSE i \in 1..Len(headers) \cap 1..Len(values) :
                   /\ headers[i] = h
                   /\ \A j \in 1..Len(headers) \cap 1..Len(values) :
                        headers[j] = h => j <= i
     IN values[last]]

\* The object built for one data row: obj[h] = values[i] || '' for each header
\* in order, a later column overwriting an earlier one of the same name.
rowObject(headers, values) ==
  [h \in {headers[i] : i \in 1..Len(headers)} |->
     LET last == CHOOSE i \in 1..Len(headers) :
                   /\ headers[i] = h
                   /\ \A j \in 1..Len(headers) : headers[j] = h => j <= i
     IN IF last <= Len(values) THEN values[last] ELSE <<>>]

\* A variant of isNonEmptyRow that keeps every object.
keepsEveryRow(obj) == obj = obj

\* Object.values(obj).some(v => v.trim())
isNonEmptyRow(obj) == \E h \in DOMAIN obj : trim(obj[h]) # <<>>

\* A variant of parseCSV that makes a record of the header line, too.
parseCSVWithHeaderRecord(csv) ==
  IF csv = <<"null">> \/ csv = <<>> THEN <<>>
  ELSE
    LET rows == splitRows(csv)
    IN IF Len(rows) < 1 THEN <<>>
       ELSE
         LET rawHeaders == parseRow(rows[1])
             headers == [i \in 1..Len(rawHeaders) |-> toLowerCase(rawHeaders[i])]
             objs == [k \in 1..Len(rows) |-> rowObject(headers, parseRow(rows[k]))]
         IN SelectSeq(objs, isNonEmptyRow)

\* parseCSV(csv), for csv a string or null: the guard of its first line, the
\* row splitting, and the records of the rows after the header.
parseCSV(csv) ==
  IF csv = <<"null">> \/ csv = <<>> THEN <<>>
  ELSE
    LET rows == splitRows(csv)
    IN IF Len(rows) < 2 THEN <<>>
       ELSE
         LET rawHeaders == parseRow(rows[1])
             headers == [i \in 1..Len(rawHeaders) |-> toLowerCase(rawHeaders[i])]
             objs == [k \in 1..(Len(rows) - 1) |-> rowObject(headers, parseRow(rows[k + 1]))]
         IN SelectSeq(objs, isNonEmptyRow)

(***************************************************************************)
(* Bounds and inputs                                                       *)
(***************************************************************************)

\* Number of times the effect of useSheetData may run (mount, prop changes
\* and retries together).
MaxEffectRuns == 2

\* The clock advances up to MaxHours cache durations.
MaxHours == 1

CACHE_DURATION == 60 * 60 * 1000

\* The largest number of lines of a generated sheet, and the largest length of
\* a generated quoted cell.
MaxLines == 3
MaxCellLen == 3

\* The largest number of cells of a generated data row.
MaxCells == 3

\* The largest maxRetries fetchWithRetry is called with on its own.
MaxAttempts == 4

\* Default value of fetchWithRetry's maxRetries parameter.
maxRetriesDefault == 3

\* DEFAULT_SETTINGS.mathSheetUrl and DEFAULT_SETTINGS.englishSheetUrl, and a
\* sheet URL a user may enter in the settings.
mathSheetUrl == "https://docs.google.com/spreadsheets/d/e/2PACX-1vQr3nlml1JTPMR4ROfCKarFSayMFxYyOwZO-v_A0INlG1oMloM5wm0wltURipcy0A/pub?output=csv"
englishSheetUrl == "https://docs.google.com/spreadsheets/d/e/2PACX-1vRses_Y74IwZ6nFvmwMygKruq0HgQZZmOEYSdf3sE0pInXXByyU0uSf8KPY8Z6Giw/pub?output=csv"
customSheetUrl == "https://example.org/q.csv"

Urls == {mathSheetUrl, englishSheetUrl, customSheetUrl}

\* What a user may leave in a URL field of the settings page besides a URL:
\* nothing, or a blank.
blankUrl == " "

\* The settings a session may run with: DEFAULT_SETTINGS, or the English
\* sheet replaced by the user's own.
DEFAULT_SETTINGS ==
  [mathSheetUrl |-> mathSheetUrl,
   englishSheetUrl |-> englishSheetUrl,
   selectedMathWorksheet |-> "1",
   selectedEnglishWorksheet |-> "1",
   defaultDifficulty |-> "None",
   soundEnabled |-> TRUE,
   settingsSheetUrl |-> <<>>]
SettingsChoices ==
  {DEFAULT_SETTINGS,
   [DEFAULT_SETTINGS EXCEPT !.englishSheetUrl = customSheetUrl]}

\* The character codes of a URL (String.prototype.charCodeAt at each index).
charCodes(u) ==
  CASE u = mathSheetUrl ->
         <<104, 116, 116, 112, 115, 58, 47, 47, 100, 111, 99, 115, 46, 103, 111, 111,
           103, 108, 101, 46, 99, 111, 109, 47, 115, 112, 114, 101, 97, 100, 115, 104,
           101, 101, 116, 115, 47, 100, 47, 101, 47, 50, 80, 65, 67, 88, 45, 49, 118,
           81, 114, 51, 110, 108, 109, 108, 49, 74, 84, 80, 77, 82, 52, 82, 79, 102,
           67, 75, 97, 114, 70, 83, 97, 121, 77, 70, 120, 89, 121, 79, 119, 90, 79,
           45, 118, 95, 65, 48, 73, 78, 108, 71, 49, 111, 77, 108, 111, 77, 53, 119,
           109, 48, 119, 108, 116, 85, 82, 105, 112, 99, 121, 48, 65, 47, 112, 117,
           98, 63, 111, 117, 116, 112, 117, 116, 61, 99, 115, 118>>
    [] u = englishSheetUrl ->
         <<104, 116, 116, 112, 115, 58, 47, 47, 100, 111, 99, 115, 46, 103, 111, 111,
           103, 108, 101, 46, 99, 111, 109, 47, 115, 112, 114, 101, 97, 100, 115, 104,
           101, 101, 116, 115, 47, 100, 47, 101, 47, 50, 80, 65, 67, 88, 45, 49, 118,
           82, 115, 101, 115, 95, 89, 55, 52, 73, 119, 90, 54, 110, 70, 118, 109, 119,
           77, 121, 103, 75, 114, 117, 113, 48, 72, 103, 81, 90, 90, 109, 79, 69, 89,
           83, 100, 102, 51, 115, 69, 48, 112, 73, 110, 88, 88, 66, 121, 121, 85, 48,
           117, 83, 102, 56, 75, 80, 89, 56, 90, 54, 71, 105, 119, 47, 112, 117, 98,
           63, 111, 117, 116, 112, 117, 116, 61, 99, 115, 118>>
    [] u = customSheetUrl ->
         <<104, 116, 116, 112, 115, 58, 47, 47, 101, 120, 97, 109, 112, 108, 101, 46,
           111, 114, 103, 47, 113, 46, 99, 115, 118>>
    [] u = blankUrl -> <<32>>
    [] OTHER -> <<>>

\* The gameType argument of useSheetData: a game_type value or the empty string.
GameTypes == {<<>>, <<"x">>}

GAME_TYPE == <<"g", "a", "m", "e", "_", "t", "y", "p", "e">>

\* Documents the network may deliver: an empty body, and two sheets.
\*   DocA:  game_type,n / x,1 / y,2 / x,3
\*   DocB:  game_type,n / y,4 / x,5
DocEmpty == <<>>
DocA == <<"g", "a", "m", "e", "_", "t", "y", "p", "e", ",", "n", LF,
          "x", ",", "1", LF, "y", ",", "2", LF, "x", ",", "3">>
DocB == <<"g", "a", "m", "e", "_", "t", "y", "p", "e", ",", "n", LF,
          "y", ",", "4", LF, "x", ",", "5">>
Docs == {DocEmpty, DocA, DocB}

\* What one call of fetch(url) may settle to: a Response, or a rejection with
\* a TypeError.
Responses ==
  {[status |-> 200, statusText |-> "OK", body |-> d] : d \in Docs}
    \cup {[status |-> 404, statusText |-> "Not Found", body |-> DocEmpty]}
Rejections == {"Failed to fetch"}

\* A variant of ok that accepts every status from 200 on.
okFrom200(response) == response.status >= 200

\* Response.ok
ok(response) == response.status >= 200 /\ response.status <= 299

\* JavaScript null, among strings and among character sequences.
null == "null"
nullText == <<"null">>

(***************************************************************************)
(* State                                                                   *)
(***************************************************************************)
VARIABLES
  settings,           \* the settings prop of SheetBasedGame
  url, gameType,      \* the arguments of useSheetData in the current render
  data, loading, error, retryTrigger, fromCache,   \* its useState cells
  localStorage,       \* window.localStorage: key -> stored string
  quotaExceeded,      \* whether localStorage.setItem throws
  storageDenied,      \* whether every access to localStorage throws
  now,                \* Date.now()
  pending,            \* the fetchWithRetry calls that have not settled
  effectRuns,         \* number of times the effect has run (0: not mounted)
  activation,         \* the fetch started by the latest run of the effect
                      \* ("none", "background", "foreground") and how its
                      \* promise stands ("none", "pending", "fulfilled",
                      \* "rejected")
  trace,              \* when trace.on: what the fetchWithRetry calls did, in
                      \* order (attempts, waits, result)
  sheet,              \* the lines of the sheet whose text an earlier session
                      \* left in the store, when that is known
  showSettings,       \* App: whether the settings page is shown
  localSettings, urlErrors,   \* the useState cells of SettingsPage
  requests,           \* the requests SettingsPage has sent with fetch
  difficulty,         \* the difficulty prop of SheetBasedGame
  stars, timer, gameActive, gameOver, currentQ, streak, maxStreak, feedback,
  usedIndices,        \* the useState cells of SheetBasedGame
  interval,           \* the setInterval of the timer effect: how long ago it
                      \* was set, or noInterval
  timeouts,           \* the setTimeout calls of handleAnswer that have not
                      \* fired: how long ago each was set, oldest first
  screen              \* what SheetBasedGame returned when it last rendered

vars == <<settings, url, gameType, data, loading, error, retryTrigger, fromCache,
          localStorage, quotaExceeded, storageDenied, now, pending, effectRuns,
          activation, trace, sheet, showSettings, localSettings, urlErrors,
          requests, difficulty, stars, timer, gameActive, gameOver, currentQ,
          streak, maxStreak, feedback, usedIndices, interval, timeouts, screen>>

\* The state of the settings page and what it has sent.
pageVars == <<showSettings, localSettings, urlErrors, requests>>

\* The state of SheetBasedGame apart from its hook, its timers and what it
\* shows.
gameVars == <<difficulty, stars, timer, gameActive, gameOver, currentQ, streak,
              maxStreak, feedback, usedIndices, interval, timeouts, screen>>

\* No setInterval is set; no question is held (currentQ is null).
noInterval == 0 - 1
noQuestion == 0

\* The initial value of the timer cell, which startGame sets again.
initialTimer(d) == IF d = "Hard" THEN 30 ELSE IF d = "Medium" THEN 40 ELSE 50

\* SheetBasedGame as constructed with difficulty d, before its first render.
gameConstructed(d) ==
  /\ difficulty = d
  /\ stars = 0
  /\ timer = initialTimer(d)
  /\ gameActive = FALSE
  /\ gameOver = FALSE
  /\ currentQ = noQuestion
  /\ streak = 0
  /\ maxStreak = 0
  /\ feedback = "none"
  /\ usedIndices = {}
  /\ interval = noInterval
  /\ timeouts = <<>>
  /\ screen = [view |-> "none"]

hookState == <<data, loading, error, fromCache>>

\* The url argument of useSheetData: sheetUrl of SheetBasedGame, or the empty
\* string.
UrlProps == {settings.mathSheetUrl, settings.englishSheetUrl, ""}

(***************************************************************************)
(* Cache                                                                   *)
(***************************************************************************)
Base64 == <<"A", "B", "C", "D", "E", "F", "G", "H", "I", "J", "K", "L", "M",
            "N", "O", "P", "Q", "R", "S", "T", "U", "V", "W", "X", "Y", "Z",
            "a", "b", "c", "d", "e", "f", "g", "h", "i", "j", "k", "l", "m",
            "n", "o", "p", "q", "r", "s", "t", "u", "v", "w", "x", "y", "z",
            "0", "1", "2", "3", "4", "5", "6", "7", "8", "9", "+", "/">>

\* window.btoa on a sequence of character codes below 256.
RECURSIVE btoa(_)
btoa(bytes) ==
  IF bytes = <<>> THEN <<>>
  ELSE
    LET n == Len(bytes)
        b1 == bytes[1]
        b2 == IF n >= 2 THEN bytes[2] ELSE 0
        b3 == IF n >= 3 THEN bytes[3] ELSE 0
    IN << Base64[(b1 \div 4) + 1],
          Base64[((b1 % 4) * 16 + (b2 \div 16)) + 1],
          IF n >= 2 THEN Base64[((b2 % 16) * 4 + (b3 \div 64)) + 1] ELSE "=",
          IF n >= 3 THEN Base64[(b3 % 64) + 1] ELSE "=" >>
         \o btoa(SubSeq(bytes, 4, n))

\* A variant of substring0 that returns the whole string.
substringWhole(s, end) == s

\* String.prototype.substring(0, end)
substring0(s, end) == SubSeq(s, 1, IF Len(s) < end THEN Len(s) ELSE end)

getCacheKey(u) == <<"sheet-cache-">> \o substring0(btoa(charCodes(u)), 50)

\* The keys of the modelled URLs, computed once.
cacheKeyOf == [u \in Urls |-> getCacheKey(u)]

\* JSON.stringify of a cache entry, and JSON.parse of a stored string.
JSONstringify(entry) == <<"json", entry>>
isJSON(stored) == stored[1] = "json"
JSONparse(stored) == stored[2]

\* A variant of getCachedDataIn that still returns an entry whose age is
\* CACHE_DURATION.
getCachedDataInclusive(storage, u, time) ==
  LET cacheKey == cacheKeyOf[u]
  IN IF cacheKey \notin DOMAIN storage
       THEN [ret |-> nullText, storage |-> storage]
     ELSE IF ~isJSON(storage[cacheKey])
       THEN [ret |-> nullText, storage |-> storage]
     ELSE
       LET entry == JSONparse(storage[cacheKey])
           age == time - entry.timestamp
       IN IF age <= CACHE_DURATION
            THEN [ret |-> entry.data, storage |-> storage]
            ELSE [ret |-> nullText,
                  storage |-> [k \in DOMAIN storage \ {cacheKey} |-> storage[k]]]

\* A variant of getCachedDataIn that leaves an expired entry in the store.
getCachedDataKeeping(storage, u, time) ==
  LET cacheKey == cacheKeyOf[u]
  IN IF cacheKey \notin DOMAIN storage
       THEN [ret |-> nullText, storage |-> storage]
     ELSE IF ~isJSON(storage[cacheKey])
       THEN [ret |-> nullText, storage |-> storage]
     ELSE
       LET entry == JSONparse(storage[cacheKey])
           age == time - entry.timestamp
       IN IF age < CACHE_DURATION
            THEN [ret |-> entry.data, storage |-> storage]
            ELSE [ret |-> nullText, storage |-> storage]

\* getCachedData(url) against a store: what it returns and the store it leaves.
getCachedDataIn(storage, u, time) ==
  LET cacheKey == cacheKeyOf[u]
  IN IF cacheKey \notin DOMAIN storage
       THEN [ret |-> nullText, storage |-> storage]
     ELSE IF ~isJSON(storage[cacheKey])
       THEN [ret |-> nullText, storage |-> storage]
     ELSE
       LET entry == JSONparse(storage[cacheKey])
           age == time - entry.timestamp
       IN IF age < CACHE_DURATION
            THEN [ret |-> entry.data, storage |-> storage]
            ELSE [ret |-> nullText,
                  storage |-> [k \in DOMAIN storage \ {cacheKey} |-> storage[k]]]

getCachedData(u) ==
  IF storageDenied
    THEN [ret |-> nullText, storage |-> localStorage]
    ELSE getCachedDataIn(localStorage, u, now)

\* setCachedData(url, data): the store it leaves.
setCachedData(u, csv) ==
  LET cacheKey == cacheKeyOf[u]
      cacheEntry == [data |-> csv, timestamp |-> now]
  IN IF quotaExceeded \/ storageDenied
       THEN localStorage
       ELSE [k \in DOMAIN localStorage \cup {cacheKey} |->
               IF k = cacheKey THEN JSONstringify(cacheEntry) ELSE localStorage[k]]

(***************************************************************************)
(* useSheetData                                                            *)
(***************************************************************************)

\* parseCSV on the modelled documents, computed once.
parsedDocs == [d \in Docs |-> parseCSV(d)]

\* A variant of parsed whose rows pile up from one call to the next.
parsedPilingUp(csv) == data \o parseCSV(csv)
parsed(csv) == IF csv \in Docs THEN parsedDocs[csv] ELSE parseCSV(csv)

\* A variant of filtered that returns every parsed row whatever gameType is.
unfiltered(rows, g) == rows

\* gameType ? parsed.filter(row => row.game_type === gameType) : parsed
matchesGameType(row, g) == GAME_TYPE \in DOMAIN row /\ row[GAME_TYPE] = g
filtered(rows, g) ==
  IF g # <<>>
    THEN LET keep(row) == matchesGameType(row, g) IN SelectSeq(rows, keep)
    ELSE rows

\* A variant of newFetch whose call makes up to four attempts.
newFetchFourAttempts(gen, u, g, background) ==
  [gen |-> gen, url |-> u, gameType |-> g, background |-> background,
   maxRetries |-> maxRetriesDefault + 1, attempt |-> 0, awaiting |-> "fetch",
   delay |-> 0, lastError |-> null]

\* A new call fetchWithRetry(url) made by effect run number gen: its first
\* attempt is in flight.
newFetch(gen, u, g, background) ==
  [gen |-> gen, url |-> u, gameType |-> g, background |-> background,
   maxRetries |-> maxRetriesDefault, attempt |-> 0, awaiting |-> "fetch",
   delay |-> 0, lastError |-> null]

\* Truthiness of the value getCachedData returned.
truthy(cached) == cached # nullText /\ cached # <<>>

\* The body of the effect, for arguments u and g.
effect(u, g) ==
  /\ effectRuns' = effectRuns + 1
  /\ IF u = ""
       THEN /\ loading' = FALSE
            /\ activation' = [fetch |-> "none", outcome |-> "none"]
            /\ UNCHANGED <<data, error, fromCache, localStorage, pending>>
       ELSE
         LET got == getCachedData(u)
             cached == got.ret
         IN /\ localStorage' = got.storage
            /\ IF truthy(cached)
                 THEN /\ data' = filtered(parsed(cached), g)
                      /\ fromCache' = TRUE
                      /\ loading' = FALSE
                      /\ UNCHANGED error
                      /\ pending' = pending \cup {newFetch(effectRuns + 1, u, g, TRUE)}
                      /\ activation' = [fetch |-> "background", outcome |-> "pending"]
                 ELSE /\ loading' = TRUE
                      /\ error' = null
                      /\ fromCache' = FALSE
                      /\ UNCHANGED data
                      /\ pending' = pending \cup {newFetch(effectRuns + 1, u, g, FALSE)}
                      /\ activation' = [fetch |-> "foreground", outcome |-> "pending"]

\* First render and first run of the effect.
Mount ==
  /\ effectRuns = 0
  /\ effect(url, gameType)
  /\ UNCHANGED <<settings, url, gameType, retryTrigger, quotaExceeded, now>>
  /\ UNCHANGED <<storageDenied, trace, sheet>>
  /\ UNCHANGED pageVars
  /\ UNCHANGED gameVars

\* A re-render with a different (url, gameType): the effect runs again.
ChangeProps(u, g) ==
  /\ effectRuns > 0
  /\ effectRuns < MaxEffectRuns
  /\ <<u, g>> # <<url, gameType>>
  /\ url' = u
  /\ gameType' = g
  /\ effect(u, g)
  /\ UNCHANGED <<settings, retryTrigger, quotaExceeded, now>>
  /\ UNCHANGED <<storageDenied, trace, sheet>>
  /\ UNCHANGED pageVars
  /\ UNCHANGED gameVars

\* A variant of retry whose change of retryTrigger does not run the effect
\* again.
retryWithoutEffect ==
  /\ effectRuns > 0
  /\ effectRuns < MaxEffectRuns
  /\ retryTrigger' = retryTrigger + 1
  /\ UNCHANGED <<data, loading, error, fromCache, localStorage, pending,
                 effectRuns, activation>>
  /\ UNCHANGED <<settings, url, gameType, quotaExceeded, now>>
  /\ UNCHANGED <<storageDenied, trace, sheet>>
  /\ UNCHANGED pageVars
  /\ UNCHANGED gameVars

\* retry(): setRetryTrigger(prev => prev + 1), and the effect runs again.
retry ==
  /\ effectRuns > 0
  /\ effectRuns < MaxEffectRuns
  /\ retryTrigger' = retryTrigger + 1
  /\ effect(url, gameType)
  /\ UNCHANGED <<settings, url, gameType, quotaExceeded, now>>
  /\ UNCHANGED <<storageDenied, trace, sheet>>
  /\ UNCHANGED pageVars
  /\ UNCHANGED gameVars

\* The promise of the call p settles: recorded when p is the latest call.
settle(p, outcome) ==
  activation' = IF p.gen = effectRuns
                  THEN [activation EXCEPT !.outcome = outcome]
                  ELSE activation

\* A variant of onFulfilled in which the foreground call leaves loading as it
\* is.
onFulfilledStillLoading(p, csv) ==
  /\ settle(p, "fulfilled")
  /\ localStorage' = setCachedData(p.url, csv)
  /\ data' = filtered(parsed(csv), p.gameType)
  /\ IF p.background
       THEN /\ fromCache' = FALSE
            /\ UNCHANGED <<loading, error>>
       ELSE UNCHANGED <<loading, fromCache, error>>

\* The .then callback of the call p, given the fetched text.
onFulfilled(p, csv) ==
  /\ settle(p, "fulfilled")
  /\ localStorage' = setCachedData(p.url, csv)
  /\ data' = filtered(parsed(csv), p.gameType)
  /\ IF p.background
       THEN /\ fromCache' = FALSE
            /\ UNCHANGED <<loading, error>>
       ELSE /\ loading' = FALSE
            /\ UNCHANGED <<fromCache, error>>

\* A variant of onRejected in which the background call, too, reports its
\* failure.
onRejectedSurfacing(p, message) ==
  /\ settle(p, "rejected")
  /\ error' = message
  /\ loading' = FALSE
  /\ UNCHANGED <<data, fromCache, localStorage>>

\* A variant of onRejected in which the foreground call reports its failure
\* and leaves loading as it is.
onRejectedStillLoading(p, message) ==
  /\ settle(p, "rejected")
  /\ IF p.background
       THEN UNCHANGED <<loading, error>>
       ELSE /\ error' = message
            /\ UNCHANGED loading
  /\ UNCHANGED <<data, fromCache, localStorage>>

\* The .catch callback of the call p, given the message of the thrown error.
onRejected(p, message) ==
  /\ settle(p, "rejected")
  /\ IF p.background
       THEN UNCHANGED <<loading, error>>
       ELSE /\ error' = message
            /\ loading' = FALSE
  /\ UNCHANGED <<data, fromCache, localStorage>>

(***************************************************************************)
(* fetchWithRetry                                                          *)
(***************************************************************************)

\* The record of what the calls did grows by events, when it is kept.
logged(events) ==
  IF trace.on THEN [trace EXCEPT !.events = @ \o events] ELSE trace

\* A variant of attemptFailed that gives up at the first failure.
attemptFailedOnce(p, message) ==
  /\ pending' = pending \ {p}
  /\ onRejected(p, message)
  /\ trace' = logged(<<[kind |-> "failed", attempt |-> p.attempt, message |-> message],
                       [kind |-> "threw", message |-> message]>>)

\* A variant of attemptFailed whose backoff grows by one second per attempt.
attemptFailedLinear(p, message) ==
  IF p.attempt < p.maxRetries - 1
    THEN /\ pending' = (pending \ {p}) \cup
                         {[p EXCEPT !.lastError = message,
                                    !.awaiting = "delay",
                                    !.delay = (p.attempt + 1) * 1000]}
         /\ UNCHANGED <<data, loading, error, fromCache, localStorage, activation>>
         /\ trace' = logged(<<[kind |-> "failed", attempt |-> p.attempt,
                               message |-> message]>>)
    ELSE /\ pending' = pending \ {p}
         /\ onRejected(p, message)
         /\ trace' = logged(<<[kind |-> "failed", attempt |-> p.attempt,
                               message |-> message],
                              [kind |-> "threw", message |-> message]>>)

\* The catch block of the loop: the attempt of p failed with message.
attemptFailed(p, message) ==
  IF p.attempt < p.maxRetries - 1
    THEN /\ pending' = (pending \ {p}) \cup
                         {[p EXCEPT !.lastError = message,
                                    !.awaiting = "delay",
                                    !.delay = (2 ^ p.attempt) * 1000]}
         /\ UNCHANGED <<data, loading, error, fromCache, localStorage, activation>>
         /\ trace' = logged(<<[kind |-> "failed", attempt |-> p.attempt,
                               message |-> message]>>)
    ELSE /\ pending' = pending \ {p}
         /\ onRejected(p, message)
         /\ trace' = logged(<<[kind |-> "failed", attempt |-> p.attempt,
                               message |-> message],
                              [kind |-> "threw", message |-> message]>>)

\* The message of the Error thrown for a response that is not ok.
httpMessage(response) ==
  "HTTP " \o ToString(response.status) \o ": " \o response.statusText

\* A variant of FetchResolves that does not try again after a response that
\* is not ok.
FetchResolvesFinal(p, response) ==
  /\ p \in pending
  /\ p.awaiting = "fetch"
  /\ pending' = pending \ {p}
  /\ IF ok(response)
       THEN /\ onFulfilled(p, response.body)
            /\ trace' = logged(<<[kind |-> "returned", attempt |-> p.attempt,
                                  text |-> response.body]>>)
       ELSE /\ onRejected(p, httpMessage(response))
            /\ trace' = logged(<<[kind |-> "failed", attempt |-> p.attempt,
                                  message |-> httpMessage(response)],
                                 [kind |-> "threw", message |-> httpMessage(response)]>>)
  /\ UNCHANGED <<settings, url, gameType, retryTrigger, quotaExceeded, now, effectRuns>>
  /\ UNCHANGED <<storageDenied, sheet>>
  /\ UNCHANGED pageVars
  /\ UNCHANGED gameVars

\* fetch(url) resolves with a Response.
FetchResolves(p, response) ==
  /\ p \in pending
  /\ p.awaiting = "fetch"
  /\ IF ok(response)
       THEN /\ pending' = pending \ {p}
            /\ onFulfilled(p, response.body)
            /\ trace' = logged(<<[kind |-> "returned", attempt |-> p.attempt,
                                  text |-> response.body]>>)
       ELSE attemptFailed(p, httpMessage(response))
  /\ UNCHANGED <<settings, url, gameType, retryTrigger, quotaExceeded, now, effectRuns>>
  /\ UNCHANGED <<storageDenied, sheet>>
  /\ UNCHANGED pageVars
  /\ UNCHANGED gameVars

\* fetch(url) rejects.
FetchRejects(p, message) ==
  /\ p \in pending
  /\ p.awaiting = "fetch"
  /\ attemptFailed(p, message)
  /\ UNCHANGED <<settings, url, gameType, retryTrigger, quotaExceeded, now, effectRuns>>
  /\ UNCHANGED <<storageDenied, sheet>>
  /\ UNCHANGED pageVars
  /\ UNCHANGED gameVars

\* The backoff timer of p fires: the loop starts the next attempt.
DelayElapsed(p) ==
  /\ p \in pending
  /\ p.awaiting = "delay"
  /\ pending' = (pending \ {p}) \cup
                  {[p EXCEPT !.attempt = p.attempt + 1,
                             !.awaiting = "fetch",
                             !.delay = 0]}
  /\ UNCHANGED <<settings, url, gameType, data, loading, error, retryTrigger, fromCache,
                 localStorage, quotaExceeded, now, effectRuns, activation>>
  /\ trace' = logged(<<[kind |-> "waited", ms |-> p.delay]>>)
  /\ UNCHANGED <<storageDenied, sheet>>
  /\ UNCHANGED pageVars
  /\ UNCHANGED gameVars

(***************************************************************************)
(* Environment                                                             *)
(***************************************************************************)
ClockSteps == {CACHE_DURATION - 1, CACHE_DURATION}

AdvanceClock(d) ==
  /\ now + d <= MaxHours * CACHE_DURATION
  /\ now' = now + d
  /\ UNCHANGED <<settings, url, gameType, data, loading, error, retryTrigger, fromCache,
                 localStorage, quotaExceeded, pending, effectRuns, activation>>
  /\ UNCHANGED <<storageDenied, trace, sheet>>
  /\ UNCHANGED pageVars
  /\ UNCHANGED gameVars

\* The store fills up, or room is made again.
QuotaChanges ==
  /\ quotaExceeded' = ~quotaExceeded
  /\ UNCHANGED <<settings, url, gameType, data, loading, error, retryTrigger, fromCache,
                 localStorage, now, pending, effectRuns, activation>>
  /\ UNCHANGED <<storageDenied, trace, sheet>>
  /\ UNCHANGED pageVars
  /\ UNCHANGED gameVars

(***************************************************************************)
(* Specification                                                           *)
(***************************************************************************)
\* What an earlier session may have left in the store: nothing, or the entry
\* of one sheet written at time 0.
InitialStores ==
  {<<>>} \cup
  {[k \in {cacheKeyOf[u]} |-> JSONstringify([data |-> DocA, timestamp |-> 0])] :
     u \in Urls}

Init ==
  /\ settings \in SettingsChoices
  /\ url \in UrlProps
  /\ gameType \in GameTypes
  /\ data = <<>>
  /\ loading = TRUE
  /\ error = null
  /\ retryTrigger = 0
  /\ fromCache = FALSE
  /\ localStorage \in InitialStores
  /\ quotaExceeded = FALSE
  /\ storageDenied = FALSE
  /\ now = 0
  /\ pending = {}
  /\ effectRuns = 0
  /\ activation = [fetch |-> "none", outcome |-> "none"]
  /\ trace = [on |-> FALSE, events |-> <<>>]
  /\ sheet = <<>>
  /\ showSettings = FALSE
  /\ localSettings = settings
  /\ urlErrors = [math |-> "", english |-> ""]
  /\ requests = <<>>
  /\ gameConstructed("Easy")

Next ==
  \/ Mount
  \/ \E u \in UrlProps, g \in GameTypes : ChangeProps(u, g)
  \/ retry
  \/ \E p \in pending, response \in Responses : FetchResolves(p, response)
  \/ \E p \in pending, message \in Rejections : FetchRejects(p, message)
  \/ \E p \in pending : DelayElapsed(p)
  \/ \E d \in ClockSteps : AdvanceClock(d)
  \/ QuotaChanges

Spec == Init /\ [][Next]_vars

\* The call of fetchWithRetry started by run g of the effect takes its next
\* step: its fetch settles, or its backoff timer fires.
Progress(g) ==
  \E p \in pending :
    /\ p.gen = g
    /\ \/ \E response \in Responses : FetchResolves(p, response)
       \/ \E message \in Rejections : FetchRejects(p, message)
       \/ DelayElapsed(p)

\* The hook, with the custom English sheet and a store that takes every
\* write, when every fetch settles and every backoff timer fires in the end:
\* the browser completes each request and runs each timer callback.
LiveInit == Init /\ settings # DEFAULT_SETTINGS

LiveNext ==
  \/ Mount
  \/ \E u \in UrlProps, g \in GameTypes : ChangeProps(u, g)
  \/ retry
  \/ \E p \in pending, response \in Responses : FetchResolves(p, response)
  \/ \E p \in pending, message \in Rejections : FetchRejects(p, message)
  \/ \E p \in pending : DelayElapsed(p)
  \/ \E d \in ClockSteps : AdvanceClock(d)

LiveSpec ==
  LiveInit /\ [][LiveNext]_vars /\ \A g \in 1..MaxEffectRuns : WF_vars(Progress(g))

(***************************************************************************)
(* fetchWithRetry(url, maxRetries) on its own: the hook has just started   *)
(* a foreground fetch on an empty store, with any maxRetries from 1 to     *)
(* MaxAttempts, and what the call does is recorded.                        *)
(***************************************************************************)
FetchInit ==
  /\ settings \in SettingsChoices
  /\ url \in UrlProps \ {""}
  /\ gameType \in GameTypes
  /\ data = <<>>
  /\ loading = TRUE
  /\ error = null
  /\ retryTrigger = 0
  /\ fromCache = FALSE
  /\ localStorage = <<>>
  /\ quotaExceeded = FALSE
  /\ storageDenied = FALSE
  /\ now = 0
  /\ effectRuns = 1
  /\ activation = [fetch |-> "foreground", outcome |-> "pending"]
  /\ sheet = <<>>
  /\ showSettings = FALSE
  /\ localSettings = settings
  /\ urlErrors = [math |-> "", english |-> ""]
  /\ requests = <<>>
  /\ gameConstructed("Easy")
  /\ \E n \in 1..MaxAttempts :
       /\ pending = {[newFetch(1, url, gameType, FALSE) EXCEPT !.maxRetries = n]}
       /\ trace = [on |-> TRUE,
                   events |-> <<[kind |-> "called", maxRetries |-> n]>>]

FetchNext ==
  \/ \E p \in pending, response \in Responses : FetchResolves(p, response)
  \/ \E p \in pending, message \in Rejections : FetchRejects(p, message)
  \/ \E p \in pending : DelayElapsed(p)

FetchSpec == FetchInit /\ [][FetchNext]_vars

(***************************************************************************)
(* The hook over a store that may be unusable or hold anything: access to  *)
(* localStorage may start or stop throwing, and an earlier session may     *)
(* have left an entry written just before this one started, or a string    *)
(* that is not a cache entry.  The two sheets have URLs of different keys. *)
(***************************************************************************)
StorageAccessChanges ==
  /\ storageDenied' = ~storageDenied
  /\ UNCHANGED <<settings, url, gameType, data, loading, error, retryTrigger, fromCache,
                 localStorage, quotaExceeded, now, pending, effectRuns, activation>>
  /\ UNCHANGED <<trace, sheet>>
  /\ UNCHANGED pageVars
  /\ UNCHANGED gameVars

\* A stored string that JSON.parse rejects.
corruptEntry == <<"{data:">>

CacheStores ==
  InitialStores
    \cup {[k \in {cacheKeyOf[u]} |-> JSONstringify([data |-> DocA, timestamp |-> 0 - 1])] :
            u \in Urls}
    \cup {[k \in {cacheKeyOf[u]} |-> corruptEntry] : u \in Urls}

CacheInit ==
  /\ settings \in SettingsChoices \ {DEFAULT_SETTINGS}
  /\ url \in UrlProps
  /\ gameType \in GameTypes
  /\ data = <<>>
  /\ loading = TRUE
  /\ error = null
  /\ retryTrigger = 0
  /\ fromCache = FALSE
  /\ localStorage \in CacheStores
  /\ quotaExceeded = FALSE
  /\ storageDenied = FALSE
  /\ now = 0
  /\ pending = {}
  /\ effectRuns = 0
  /\ activation = [fetch |-> "none", outcome |-> "none"]
  /\ trace = [on |-> FALSE, events |-> <<>>]
  /\ sheet = <<>>
  /\ showSettings = FALSE
  /\ localSettings = settings
  /\ urlErrors = [math |-> "", english |-> ""]
  /\ requests = <<>>
  /\ gameConstructed("Easy")

CacheNext ==
  \/ Next
  \/ StorageAccessChanges

CacheSpec == CacheInit /\ [][CacheNext]_vars

(***************************************************************************)
(* parseCSV on generated sheets: an earlier session has left in the store  *)
(* the text of a sheet, written the way a spreadsheet exports CSV (cells   *)
(* separated by commas, a cell either plain or wrapped in quotes with its  *)
(* quotes doubled, each line ended by \n, \r or \r\n), and the hook mounts *)
(* on it with no gameType, so that its records are parseCSV of the text.   *)
(***************************************************************************)
RECURSIVE flatten(_)
flatten(seqs) == IF seqs = <<>> THEN <<>> ELSE Head(seqs) \o flatten(Tail(seqs))

\* All sequences over alphabet of length at most n.
RECURSIVE SeqsUpTo(_, _)
SeqsUpTo(alphabet, n) ==
  IF n = 0 THEN {<<>>}
  ELSE LET shorter == SeqsUpTo(alphabet, n - 1)
       IN shorter \cup {Append(w, c) : w \in shorter, c \in alphabet}

plain(value) == [value |-> value, quoted |-> FALSE]
quotedCell(value) == [value |-> value, quoted |-> TRUE]
\* A cell whose opening quote has no closing quote.
unclosedCell(value) == [value |-> value, quoted |-> TRUE, unclosed |-> TRUE]

\* The text of a cell, of a line (without its end), and of a sheet.
cellText(cell) ==
  IF cell.quoted
    THEN <<QUOTE>>
           \o flatten([i \in 1..Len(cell.value) |->
                         IF cell.value[i] = QUOTE THEN <<QUOTE, QUOTE>>
                                                  ELSE <<cell.value[i]>>])
           \o (IF "unclosed" \in DOMAIN cell THEN <<>> ELSE <<QUOTE>>)
    ELSE cell.value
lineText(ln) ==
  flatten([j \in 1..Len(ln.cells) |->
             (IF j > 1 THEN <<COMMA>> ELSE <<>>) \o cellText(ln.cells[j])])
sheetText(sh) == flatten([i \in 1..Len(sh) |-> lineText(sh[i]) \o sh[i].eol])

\* The ends of a line, and the cells of the lines sheets are made of: a
\* header with an upper-case name, rows of one and two cells, an empty line,
\* a line of white space, and rows with a line break inside quotes.
Eols == {<<LF>>, <<CR>>, <<CR, LF>>}
LineChoices ==
  {<<plain(<<"h">>), plain(<<"K">>)>>,
   <<plain(<<"a">>)>>,
   <<plain(<<"a">>), plain(<<"b">>)>>,
   <<plain(<<>>)>>,
   <<plain(<<" ">>)>>,
   <<quotedCell(<<"a", LF, "b">>)>>,
   <<quotedCell(<<"a", CR, LF>>), plain(<<"c">>)>>}

\* Sheets of up to MaxLines lines; only the last line may lack its end.
RECURSIVE LinesUpTo(_)
LinesUpTo(n) ==
  IF n = 0 THEN {<<>>}
  ELSE LET shorter == LinesUpTo(n - 1)
       IN shorter \cup {Append(sh, [cells |-> c, eol |-> e]) :
                          sh \in shorter, c \in LineChoices, e \in Eols}
LineSheets ==
  {sh \in LinesUpTo(MaxLines) : sh # <<>>}
    \cup {Append(sh, [cells |-> c, eol |-> <<>>]) :
            sh \in LinesUpTo(MaxLines - 1), c \in LineChoices}

\* Sheets of a header and one row whose first cell is any quoted value of up
\* to MaxCellLen characters, alone or followed by a plain cell.
CellAlphabet == {"a", " ", COMMA, QUOTE, LF}
heSaidHi == <<"H", "e", " ", "s", "a", "i", "d", " ", QUOTE, "h", "i", QUOTE>>
QuotedValues ==
  SeqsUpTo(CellAlphabet, MaxCellLen)
    \cup {heSaidHi \o <<COMMA, LF>>, heSaidHi \o <<COMMA, LF, "x">>}
CellSheets ==
  {<<[cells |-> <<plain(<<"h">>)>>, eol |-> <<LF>>],
     [cells |-> <<quotedCell(v)>>, eol |-> <<>>]>> : v \in QuotedValues}
    \cup
  {<<[cells |-> <<plain(<<"h">>), plain(<<"k">>)>>, eol |-> <<LF>>],
     [cells |-> <<quotedCell(v), plain(<<"b">>)>>, eol |-> <<LF>>]>> : v \in QuotedValues}

\* Sheets of a header, with or without a repeated name, and one or two rows
\* of up to MaxCells plain cells (the first of two rows of fewer): rows
\* shorter and longer than the header, empty cells and cells of white space.
HeaderChoices ==
  {<<plain(<<"h">>), plain(<<"K">>)>>,
   <<plain(<<"h">>), plain(<<"H">>)>>,
   <<plain(<<"h">>), plain(<<"k">>), plain(<<"H">>)>>}
CellValues == {<<"a">>, <<"b">>, <<>>, <<" ">>}
RowChoices ==
  {[j \in 1..Len(r) |-> plain(r[j])] : r \in SeqsUpTo(CellValues, MaxCells) \ {<<>>}}
RecordSheets ==
  {<<[cells |-> h, eol |-> <<LF>>], [cells |-> r, eol |-> <<>>]>> :
     h \in HeaderChoices, r \in RowChoices}
    \cup
  {<<[cells |-> h, eol |-> <<LF>>], [cells |-> r, eol |-> <<LF>>],
     [cells |-> q, eol |-> <<LF>>]>> :
     h \in HeaderChoices,
     r \in {x \in RowChoices : Len(x) < MaxCells},
     q \in RowChoices}

\* Sheets whose last cell opens a quote that is never closed: in the last of
\* two or three lines, or in the header itself; what follows the quote is
\* any text of up to MaxCellLen letters, commas and line breaks.
UnclosedValues == SeqsUpTo({"a", COMMA, LF, CR}, MaxCellLen)
UnclosedSheets ==
  {<<[cells |-> <<plain(<<"h">>), plain(<<"K">>)>>, eol |-> <<LF>>],
     [cells |-> <<plain(<<"a">>), unclosedCell(v)>>, eol |-> <<>>]>> :
     v \in UnclosedValues}
    \cup
  {<<[cells |-> <<plain(<<"h">>), plain(<<"K">>)>>, eol |-> <<CR, LF>>],
     [cells |-> <<plain(<<"b">>)>>, eol |-> <<LF>>],
     [cells |-> <<plain(<<"a">>), unclosedCell(v)>>, eol |-> <<>>]>> :
     v \in UnclosedValues}
    \cup
  {<<[cells |-> <<plain(<<"h">>), unclosedCell(v)>>, eol |-> <<>>]>> :
     v \in UnclosedValues}

Sheets == LineSheets \cup CellSheets \cup RecordSheets \cup UnclosedSheets

ParseInit ==
  /\ settings \in SettingsChoices \ {DEFAULT_SETTINGS}
  /\ url = settings.englishSheetUrl
  /\ gameType = <<>>
  /\ data = <<>>
  /\ loading = TRUE
  /\ error = null
  /\ retryTrigger = 0
  /\ fromCache = FALSE
  /\ sheet \in Sheets
  /\ localStorage =
       [k \in {cacheKeyOf[url]} |->
          JSONstringify([data |-> sheetText(sheet), timestamp |-> 0])]
  /\ quotaExceeded = FALSE
  /\ storageDenied = FALSE
  /\ now = 0
  /\ pending = {}
  /\ effectRuns = 0
  /\ activation = [fetch |-> "none", outcome |-> "none"]
  /\ trace = [on |-> FALSE, events |-> <<>>]
  /\ showSettings = FALSE
  /\ localSettings = settings
  /\ urlErrors = [math |-> "", english |-> ""]
  /\ requests = <<>>
  /\ gameConstructed("Easy")

ParseNext ==
  \/ Mount
  \/ retry

ParseSpec == ParseInit /\ [][ParseNext]_vars

(***************************************************************************)
(* SettingsPage: the user opens the settings, edits the fields, resets     *)
(* them, saves or goes back.  The games are not running.                   *)
(***************************************************************************)

\* The largest number of requests the settings page sends.
MaxPosts == 2

\* The character codes of the fixed parts of googleSheetsPattern,
\*   ^https:\/\/docs\.google\.com\/spreadsheets\/d\/(e\/)?[\w-]+\/pub\?output=csv
\* "https://docs.google.com/spreadsheets/d/", "e/" and "/pub?output=csv".
patternPrefix ==
  <<104, 116, 116, 112, 115, 58, 47, 47, 100, 111, 99, 115, 46, 103, 111,
    111, 103, 108, 101, 46, 99, 111, 109, 47, 115, 112, 114, 101, 97,
    100, 115, 104, 101, 101, 116, 115, 47, 100, 47>>
patternE == <<101, 47>>
patternSuffix ==
  <<47, 112, 117, 98, 63, 111, 117, 116, 112, 117, 116, 61, 99, 115, 118>>

\* A character of the class [\w-].
isWordOrDash(c) ==
  \/ c \in 48..57
  \/ c \in 65..90
  \/ c \in 97..122
  \/ c = 95
  \/ c = 45

\* codes continues, from position i on, with the given codes.
continuesWith(codes, i, part) ==
  /\ i + Len(part) - 1 <= Len(codes)
  /\ SubSeq(codes, i, i + Len(part) - 1) = part

\* The number of characters of [\w-] that codes has from position i on.
RECURSIVE wordRun(_, _)
wordRun(codes, i) ==
  IF i <= Len(codes) /\ isWordOrDash(codes[i]) THEN 1 + wordRun(codes, i + 1) ELSE 0

\* [\w-]+\/pub\?output=csv from position i on.
idThenPub(codes, i) ==
  /\ wordRun(codes, i) >= 1
  /\ continuesWith(codes, i + wordRun(codes, i), patternSuffix)

\* googleSheetsPattern.test(url)
googleSheetsPattern(codes) ==
  /\ continuesWith(codes, 1, patternPrefix)
  /\ \/ idThenPub(codes, Len(patternPrefix) + 1)
     \/ /\ continuesWith(codes, Len(patternPrefix) + 1, patternE)
        /\ idThenPub(codes, Len(patternPrefix) + Len(patternE) + 1)

\* url.trim() is empty.
isBlankUrl(u) == \A i \in 1..Len(charCodes(u)) : charCodes(u)[i] \in {32, 9, 10, 13}

\* validateGoogleSheetUrl(url): the message, or '' for an accepted URL.
validateGoogleSheetUrl(u) ==
  IF u = "" \/ isBlankUrl(u) THEN "URL is required"
  ELSE IF ~googleSheetsPattern(charCodes(u)) THEN "Invalid Google Sheets URL"
  ELSE ""

\* What the user may type into the fields of the page.
MathUrlTexts == {mathSheetUrl, englishSheetUrl, ""}
EnglishUrlTexts == {englishSheetUrl, customSheetUrl, blankUrl}
Difficulties == {"None", "Easy"}
SyncUrlTexts == {<<>>, <<" ">>, <<"u">>}

\* validateGoogleSheetUrl on those texts, computed once.
urlErrorOf ==
  [u \in MathUrlTexts \cup EnglishUrlTexts \cup Urls |-> validateGoogleSheetUrl(u)]

\* App shows the settings page: SettingsPage mounts with the settings of App.
OpenSettings ==
  /\ ~showSettings
  /\ showSettings' = TRUE
  /\ localSettings' = settings
  /\ urlErrors' = [math |-> "", english |-> ""]
  /\ UNCHANGED <<settings, localStorage, requests>>
  /\ UNCHANGED <<url, gameType, data, loading, error, retryTrigger, fromCache,
                 quotaExceeded, storageDenied, now, pending, effectRuns, activation,
                 trace, sheet>>
  /\ UNCHANGED gameVars

handleMathUrlChange(u) ==
  /\ showSettings
  /\ localSettings' = [localSettings EXCEPT !.mathSheetUrl = u]
  /\ urlErrors' = [urlErrors EXCEPT !.math = urlErrorOf[u]]
  /\ UNCHANGED <<settings, localStorage, requests, showSettings>>
  /\ UNCHANGED <<url, gameType, data, loading, error, retryTrigger, fromCache,
                 quotaExceeded, storageDenied, now, pending, effectRuns, activation,
                 trace, sheet>>
  /\ UNCHANGED gameVars

handleEnglishUrlChange(u) ==
  /\ showSettings
  /\ localSettings' = [localSettings EXCEPT !.englishSheetUrl = u]
  /\ urlErrors' = [urlErrors EXCEPT !.english = urlErrorOf[u]]
  /\ UNCHANGED <<settings, localStorage, requests, showSettings>>
  /\ UNCHANGED <<url, gameType, data, loading, error, retryTrigger, fromCache,
                 quotaExceeded, storageDenied, now, pending, effectRuns, activation,
                 trace, sheet>>
  /\ UNCHANGED gameVars

\* onChange of the difficulty select.
changeDefaultDifficulty(d) ==
  /\ showSettings
  /\ localSettings' = [localSettings EXCEPT !.defaultDifficulty = d]
  /\ UNCHANGED <<settings, localStorage, requests, showSettings, urlErrors>>
  /\ UNCHANGED <<url, gameType, data, loading, error, retryTrigger, fromCache,
                 quotaExceeded, storageDenied, now, pending, effectRuns, activation,
                 trace, sheet>>
  /\ UNCHANGED gameVars

\* onChange of the settings sync sheet field.
changeSettingsSheetUrl(text) ==
  /\ showSettings
  /\ localSettings' = [localSettings EXCEPT !.settingsSheetUrl = text]
  /\ UNCHANGED <<settings, localStorage, requests, showSettings, urlErrors>>
  /\ UNCHANGED <<url, gameType, data, loading, error, retryTrigger, fromCache,
                 quotaExceeded, storageDenied, now, pending, effectRuns, activation,
                 trace, sheet>>
  /\ UNCHANGED gameVars

handleReset ==
  /\ showSettings
  /\ localSettings' = DEFAULT_SETTINGS
  /\ urlErrors' = [math |-> "", english |-> ""]
  /\ UNCHANGED <<settings, localStorage, requests, showSettings>>
  /\ UNCHANGED <<url, gameType, data, loading, error, retryTrigger, fromCache,
                 quotaExceeded, storageDenied, now, pending, effectRuns, activation,
                 trace, sheet>>
  /\ UNCHANGED gameVars

\* The back button of the page.
onBack ==
  /\ showSettings
  /\ showSettings' = FALSE
  /\ UNCHANGED <<settings, localStorage, requests, localSettings, urlErrors>>
  /\ UNCHANGED <<url, gameType, data, loading, error, retryTrigger, fromCache,
                 quotaExceeded, storageDenied, now, pending, effectRuns, activation,
                 trace, sheet>>
  /\ UNCHANGED gameVars

\* storage.set(key, value) on localStorage: the store it leaves.
storageSet(key, value) ==
  IF quotaExceeded \/ storageDenied
    THEN localStorage
    ELSE [k \in DOMAIN localStorage \cup {key} |->
            IF k = key THEN value ELSE localStorage[k]]

\* Date.prototype.toISOString of the time t.
toISOString(t) == <<"iso", t>>

\* A variant of syncRequested that does not trim the field.
syncRequestedUntrimmed(s) == s.settingsSheetUrl # <<>>

\* localSettings.settingsSheetUrl && localSettings.settingsSheetUrl.trim()
syncRequested(s) == s.settingsSheetUrl # <<>> /\ trim(s.settingsSheetUrl) # <<>>

\* The request handleSave sends for the settings s.
settingsPost(s) ==
  [url |-> s.settingsSheetUrl,
   method |-> "POST",
   mode |-> "no-cors",
   contentType |-> "application/json",
   body |-> JSONstringify([timestamp |-> toISOString(now),
                           mathSheetUrl |-> s.mathSheetUrl,
                           englishSheetUrl |-> s.englishSheetUrl,
                           defaultDifficulty |-> s.defaultDifficulty,
                           soundEnabled |-> s.soundEnabled])]

handleSave ==
  /\ showSettings
  /\ syncRequested(localSettings) => Len(requests) < MaxPosts
  /\ LET mathError == urlErrorOf[localSettings.mathSheetUrl]
         englishError == urlErrorOf[localSettings.englishSheetUrl]
     IN IF mathError # "" \/ englishError # ""
          THEN /\ urlErrors' = [math |-> mathError, english |-> englishError]
               /\ UNCHANGED <<settings, localStorage, requests, showSettings>>
          ELSE /\ settings' = localSettings
               /\ localStorage' = storageSet(<<"learning-galaxy-settings">>,
                                             JSONstringify(localSettings))
               /\ requests' = IF syncRequested(localSettings)
                                THEN Append(requests, settingsPost(localSettings))
                                ELSE requests
               /\ showSettings' = FALSE
               /\ UNCHANGED urlErrors
  /\ UNCHANGED localSettings
  /\ UNCHANGED <<url, gameType, data, loading, error, retryTrigger, fromCache,
                 quotaExceeded, storageDenied, now, pending, effectRuns, activation,
                 trace, sheet>>
  /\ UNCHANGED gameVars

\* What an earlier session may have left under the key of the settings:
\* nothing, settings that were saved, or a string JSON.parse rejects.
settingsKey == <<"learning-galaxy-settings">>
SettingsStores ==
  {<<>>, [k \in {settingsKey} |-> corruptEntry]}
    \cup {[k \in {settingsKey} |-> JSONstringify(s)] : s \in SettingsChoices}

\* The settings App has after loadData: the stored ones as JSON.parse returns
\* them, or DEFAULT_SETTINGS when there are none or the parse throws.
storedSettings(storage) ==
  IF settingsKey \in DOMAIN storage /\ isJSON(storage[settingsKey])
    THEN JSONparse(storage[settingsKey])
    ELSE DEFAULT_SETTINGS

\* The page is loaded again: App mounts with its initial state and loadData
\* sets the stored settings.
loadData ==
  /\ settings' = storedSettings(localStorage)
  /\ showSettings' = FALSE
  /\ localSettings' = settings'
  /\ urlErrors' = [math |-> "", english |-> ""]
  /\ UNCHANGED <<localStorage, requests>>
  /\ UNCHANGED <<url, gameType, data, loading, error, retryTrigger, fromCache,
                 quotaExceeded, storageDenied, now, pending, effectRuns, activation,
                 trace, sheet>>
  /\ UNCHANGED gameVars

SettingsInit ==
  /\ localStorage \in SettingsStores
  /\ settings = storedSettings(localStorage)
  /\ url = ""
  /\ gameType = <<>>
  /\ data = <<>>
  /\ loading = TRUE
  /\ error = null
  /\ retryTrigger = 0
  /\ fromCache = FALSE
  /\ quotaExceeded = FALSE
  /\ storageDenied = FALSE
  /\ now = 0
  /\ pending = {}
  /\ effectRuns = 0
  /\ activation = [fetch |-> "none", outcome |-> "none"]
  /\ trace = [on |-> FALSE, events |-> <<>>]
  /\ sheet = <<>>
  /\ showSettings = FALSE
  /\ localSettings = settings
  /\ urlErrors = [math |-> "", english |-> ""]
  /\ requests = <<>>
  /\ gameConstructed("Easy")

SettingsNext ==
  \/ OpenSettings
  \/ \E u \in MathUrlTexts : handleMathUrlChange(u)
  \/ \E u \in EnglishUrlTexts : handleEnglishUrlChange(u)
  \/ \E d \in Difficulties : changeDefaultDifficulty(d)
  \/ \E text \in SyncUrlTexts : changeSettingsSheetUrl(text)
  \/ handleReset
  \/ handleSave
  \/ onBack
  \/ loadData

SettingsSpec == SettingsInit /\ [][SettingsNext]_vars

(***************************************************************************)
(* SheetBasedGame: what it shows for the state of its hook.  A foreground  *)
(* fetch is in flight; each attempt ends with one of the responses and     *)
(* rejections below, and the component renders.                            *)
(***************************************************************************)

\* The responses and rejections of these fetches: the statuses the screen
\* has a category for, with the reason phrases servers send for them
\* (empty over HTTP/2), a status without a category, a reason phrase that
\* holds words tested later, and the messages browsers reject with.
ErrorResponses ==
  {[status |-> 200, statusText |-> "OK", body |-> DocA]}
    \cup {[status |-> r[1], statusText |-> r[2], body |-> DocEmpty] :
            r \in {<<404, "Not Found">>,
                   <<404, "">>,
                   <<403, "Forbidden">>,
                   <<500, "Internal Server Error">>,
                   <<500, "JSON parse error">>,
                   <<503, "Service Unavailable">>,
                   <<429, "Too Many Requests">>}}
ErrorRejections ==
  {"Failed to fetch",
   "NetworkError when attempting to fetch resource.",
   "Load failed",
   "Failed to parse URL from q.csv",
   "CORS request did not succeed",
   "NetworkError: CORS request did not succeed"}

\* The characters of the message of an Error, for the messages above.
characters(m) ==
  CASE m = "Failed to fetch" ->
         <<"F", "a", "i", "l", "e", "d", " ", "t", "o", " ", "f", "e", "t",
           "c", "h">>
    [] m = "NetworkError when attempting to fetch resource." ->
         <<"N", "e", "t", "w", "o", "r", "k", "E", "r", "r", "o", "r", " ",
           "w", "h", "e", "n", " ", "a", "t", "t", "e", "m", "p", "t", "i",
           "n", "g", " ", "t", "o", " ", "f", "e", "t", "c", "h", " ", "r",
           "e", "s", "o", "u", "r", "c", "e", ".">>
    [] m = "Load failed" ->
         <<"L", "o", "a", "d", " ", "f", "a", "i", "l", "e", "d">>
    [] m = "Failed to parse URL from q.csv" ->
         <<"F", "a", "i", "l", "e", "d", " ", "t", "o", " ", "p", "a", "r",
           "s", "e", " ", "U", "R", "L", " ", "f", "r", "o", "m", " ", "q",
           ".", "c", "s", "v">>
    [] m = "CORS request did not succeed" ->
         <<"C", "O", "R", "S", " ", "r", "e", "q", "u", "e", "s", "t", " ",
           "d", "i", "d", " ", "n", "o", "t", " ", "s", "u", "c", "c", "e",
           "e", "d">>
    [] m = "NetworkError: CORS request did not succeed" ->
         <<"N", "e", "t", "w", "o", "r", "k", "E", "r", "r", "o", "r", ":",
           " ", "C", "O", "R", "S", " ", "r", "e", "q", "u", "e", "s", "t",
           " ", "d", "i", "d", " ", "n", "o", "t", " ", "s", "u", "c", "c",
           "e", "e", "d">>
    [] m = "HTTP 404: Not Found" ->
         <<"H", "T", "T", "P", " ", "4", "0", "4", ":", " ", "N", "o", "t",
           " ", "F", "o", "u", "n", "d">>
    [] m = "HTTP 404: " ->
         <<"H", "T", "T", "P", " ", "4", "0", "4", ":", " ">>
    [] m = "HTTP 403: Forbidden" ->
         <<"H", "T", "T", "P", " ", "4", "0", "3", ":", " ", "F", "o", "r",
           "b", "i", "d", "d", "e", "n">>
    [] m = "HTTP 500: Internal Server Error" ->
         <<"H", "T", "T", "P", " ", "5", "0", "0", ":", " ", "I", "n", "t",
           "e", "r", "n", "a", "l", " ", "S", "e", "r", "v", "e", "r", " ",
           "E", "r", "r", "o", "r">>
    [] m = "HTTP 500: JSON parse error" ->
         <<"H", "T", "T", "P", " ", "5", "0", "0", ":", " ", "J", "S", "O",
           "N", " ", "p", "a", "r", "s", "e", " ", "e", "r", "r", "o", "r">>
    [] m = "HTTP 503: Service Unavailable" ->
         <<"H", "T", "T", "P", " ", "5", "0", "3", ":", " ", "S", "e", "r",
           "v", "i", "c", "e", " ", "U", "n", "a", "v", "a", "i", "l", "a",
           "b", "l", "e">>
    [] m = "HTTP 429: Too Many Requests" ->
         <<"H", "T", "T", "P", " ", "4", "2", "9", ":", " ", "T", "o", "o",
           " ", "M", "a", "n", "y", " ", "R", "e", "q", "u", "e", "s", "t",
           "s">>
    [] m = "[object Object]" ->
         <<"[", "o", "b", "j", "e", "c", "t", " ", "O", "b", "j", "e", "c",
           "t", "]">>

\* The substrings getErrorDetails tests for.
failedToFetch ==
  <<"F", "a", "i", "l", "e", "d", " ", "t", "o", " ", "f", "e", "t", "c",
    "h">>
networkError == <<"N", "e", "t", "w", "o", "r", "k", "E", "r", "r", "o", "r">>
http404 == <<"H", "T", "T", "P", " ", "4", "0", "4">>
http403 == <<"H", "T", "T", "P", " ", "4", "0", "3">>
http500 == <<"H", "T", "T", "P", " ", "5", "0", "0">>
http503 == <<"H", "T", "T", "P", " ", "5", "0", "3">>
cors == <<"C", "O", "R", "S">>
crossOrigin == <<"c", "r", "o", "s", "s", "-", "o", "r", "i", "g", "i", "n">>
parseWord == <<"p", "a", "r", "s", "e">>
jsonWord == <<"J", "S", "O", "N">>

\* String.prototype.includes
includes(text, part) ==
  \E i \in 1..(Len(text) - Len(part) + 1) : SubSeq(text, i, i + Len(part) - 1) = part

\* error.message || String(error)
errorMessageOf(err) == IF err.message # "" THEN err.message ELSE "[object Object]"

\* A variant of getErrorDetails that tests for 'parse' and 'JSON' first.
getErrorDetailsFormatFirst(err) ==
  LET errorMessage == errorMessageOf(err)
      text == characters(errorMessage)
  IN IF includes(text, parseWord) \/ includes(text, jsonWord)
       THEN [title |-> "Data Format Error",
             message |-> "Sheet data is not in valid CSV format"]
     ELSE IF includes(text, failedToFetch) \/ includes(text, networkError)
       THEN [title |-> "Network Error", message |-> errorMessage]
     ELSE IF includes(text, http404)
       THEN [title |-> "Sheet Not Found",
             message |-> "Google Sheet not found or not published"]
     ELSE IF includes(text, http403)
       THEN [title |-> "Access Denied", message |-> "Cannot access the Google Sheet"]
     ELSE IF includes(text, http500) \/ includes(text, http503)
       THEN [title |-> "Server Error",
             message |-> "Google Sheets is temporarily unavailable"]
     ELSE IF includes(text, cors) \/ includes(text, crossOrigin)
       THEN [title |-> "Security Error",
             message |-> "Cannot load data due to browser security"]
     ELSE [title |-> "Connection Error", message |-> errorMessage]

\* getErrorDetails(error): the title and the message of the error screen (its
\* hints are fixed by the title).
getErrorDetails(err) ==
  LET errorMessage == errorMessageOf(err)
      text == characters(errorMessage)
  IN IF includes(text, failedToFetch) \/ includes(text, networkError)
       THEN [title |-> "Network Error", message |-> errorMessage]
     ELSE IF includes(text, http404)
       THEN [title |-> "Sheet Not Found",
             message |-> "Google Sheet not found or not published"]
     ELSE IF includes(text, http403)
       THEN [title |-> "Access Denied", message |-> "Cannot access the Google Sheet"]
     ELSE IF includes(text, http500) \/ includes(text, http503)
       THEN [title |-> "Server Error",
             message |-> "Google Sheets is temporarily unavailable"]
     ELSE IF includes(text, cors) \/ includes(text, crossOrigin)
       THEN [title |-> "Security Error",
             message |-> "Cannot load data due to browser security"]
     ELSE IF includes(text, parseWord) \/ includes(text, jsonWord)
       THEN [title |-> "Data Format Error",
             message |-> "Sheet data is not in valid CSV format"]
     ELSE [title |-> "Connection Error", message |-> errorMessage]

\* SheetBasedGame renders: the spinner while loading, the error screen for an
\* error, the game otherwise.
render ==
  /\ screen' = IF loading
                 THEN [view |-> "loading"]
               ELSE IF error # null /\ error # ""
                 THEN [view |-> "error",
                       errorDetails |-> getErrorDetails([message |-> error])]
               ELSE [view |-> "game"]
  /\ screen' # screen
  /\ UNCHANGED <<difficulty, stars, timer, gameActive, gameOver, currentQ, streak,
                 maxStreak, feedback, usedIndices, interval, timeouts>>
  /\ UNCHANGED <<settings, url, gameType, data, loading, error, retryTrigger, fromCache,
                 localStorage, quotaExceeded, storageDenied, now, pending, effectRuns,
                 activation, trace, sheet>>
  /\ UNCHANGED pageVars

ErrorInit ==
  /\ settings \in SettingsChoices
  /\ url \in UrlProps \ {""}
  /\ gameType \in GameTypes
  /\ data = <<>>
  /\ loading = TRUE
  /\ error = null
  /\ retryTrigger = 0
  /\ fromCache = FALSE
  /\ localStorage = <<>>
  /\ quotaExceeded = FALSE
  /\ storageDenied = FALSE
  /\ now = 0
  /\ effectRuns = 1
  /\ activation = [fetch |-> "foreground", outcome |-> "pending"]
  /\ pending = {newFetch(1, url, gameType, FALSE)}
  /\ trace = [on |-> FALSE, events |-> <<>>]
  /\ sheet = <<>>
  /\ showSettings = FALSE
  /\ localSettings = settings
  /\ urlErrors = [math |-> "", english |-> ""]
  /\ requests = <<>>
  /\ gameConstructed("Easy")

ErrorNext ==
  \/ \E p \in pending, response \in ErrorResponses : FetchResolves(p, response)
  \/ \E p \in pending, message \in ErrorRejections : FetchRejects(p, message)
  \/ \E p \in pending : DelayElapsed(p)
  \/ render

ErrorSpec == ErrorInit /\ [][ErrorNext]_vars

(***************************************************************************)
(* SheetBasedGame: the game.  The sheet has loaded; the player starts the  *)
(* game, answers, and starts again when it is over, while the interval of  *)
(* the timer effect and the timeouts of handleAnswer run.  Time passes in  *)
(* steps of TimeStepMs, and a timer fires when its delay has passed.       *)
(***************************************************************************)

\* The most stars a game of the model reaches, and the most timeouts of
\* handleAnswer that are waiting at a time.
MaxStars == 40
MaxTimeouts == 2

\* setInterval(..., 1000), setTimeout(..., 800), and the step of the clock.
TickMs == 1000
FeedbackMs == 800
TimeStepMs == 200

\* A sheet of three questions: one for Easy, one for Hard, one for every
\* difficulty.
GameSheet ==
  <<"q", "u", "e", "s", "t", "i", "o", "n", COMMA, "a", "n", "s", "w", "e",
    "r", COMMA, "d", "i", "f", "f", "i", "c", "u", "l", "t", "y", LF, "q",
    "1", COMMA, "a", COMMA, "E", "a", "s", "y", LF, "q", "2", COMMA, "b",
    COMMA, "H", "a", "r", "d", LF, "q", "3", COMMA, "c", COMMA, LF>>
GameDifficulties == {"Easy", "Medium", "Hard"}

\* The characters of a difficulty, and the key of the difficulty column.
difficultyText(d) ==
  CASE d = "Easy" -> <<"E", "a", "s", "y">>
    [] d = "Medium" -> <<"M", "e", "d", "i", "u", "m">>
    [] d = "Hard" -> <<"H", "a", "r", "d">>
    [] d = "All" -> <<"A", "l", "l">>
difficultyKey == <<"d", "i", "f", "f", "i", "c", "u", "l", "t", "y">>

\* allQuestions.filter(q => !q.difficulty || q.difficulty === difficulty ||
\*                          difficulty === 'All')
questions ==
  LET keeps(q) ==
        \/ difficultyKey \notin DOMAIN q
        \/ q[difficultyKey] = <<>>
        \/ q[difficultyKey] = difficultyText(difficulty)
        \/ difficulty = "All"
  IN SelectSeq(data, keeps)

\* getNextQuestion() as called from a render whose usedIndices is used: the
\* questions it may return (by their index in questions, from 1; noQuestion
\* for null), and the usedIndices it leaves when it returns q and the
\* functional updates start from prev.  currentQ holds the index of the
\* question object.
nextQuestions(used) ==
  IF Len(questions) = 0 THEN {noQuestion}
  ELSE LET available == {i \in 1..Len(questions) : i \notin used}
       IN IF available = {} THEN 1..Len(questions) ELSE available
usedAfter(used, prev, q) ==
  IF q = noQuestion THEN prev
  ELSE IF {i \in 1..Len(questions) : i \notin used} = {} THEN {q}
  ELSE prev \cup {q}

\* The render after the cells became ga (gameActive), t (timer), q (currentQ)
\* and go (gameOver), with the timer effect: when one of its dependencies
\* changed, the interval is cleared, and a new one is set, or the game ends.
afterRender(ga, t, q, go) ==
  IF <<ga, t, q>> = <<gameActive, timer, currentQ>>
    THEN /\ gameActive' = ga /\ gameOver' = go
         /\ interval' = interval
  ELSE IF ga /\ t > 0 /\ q # noQuestion
    THEN /\ gameActive' = ga /\ gameOver' = go
         /\ interval' = 0
  ELSE IF t = 0 /\ ga
    THEN /\ gameActive' = FALSE /\ gameOver' = TRUE
         /\ interval' = noInterval
  ELSE /\ gameActive' = ga /\ gameOver' = go
       /\ interval' = noInterval

\* The variables of the hook, of App and of the settings page, which the
\* game leaves alone.
outsideGame ==
  <<settings, url, gameType, data, loading, error, retryTrigger, fromCache,
    localStorage, quotaExceeded, storageDenied, now, pending, effectRuns,
    activation, trace, sheet, showSettings, localSettings, urlErrors, requests>>

\* startGame, from the START GAME button (enabled when there are questions)
\* or the restart button of the game-over screen.  The cells of the score
\* form (playerName, scoreSaved) are not modelled.
startGame ==
  /\ screen.view = "game"
  /\ \/ ~gameActive /\ ~gameOver /\ Len(questions) > 0
     \/ gameOver
  /\ stars' = 0
  /\ timer' = initialTimer(difficulty)
  /\ streak' = 0
  /\ maxStreak' = 0
  /\ \E q \in nextQuestions(usedIndices) :
       /\ currentQ' = IF q = noQuestion THEN currentQ ELSE q
       /\ usedIndices' = usedAfter(usedIndices, {}, q)
  /\ afterRender(TRUE, timer', currentQ', FALSE)
  /\ UNCHANGED <<difficulty, feedback, timeouts, screen>>
  /\ UNCHANGED outsideGame

\* Math.floor((15 + streak * 3) * mult), mult being 2, 1.5 or 1.
award ==
  LET twiceMult == IF difficulty = "Hard" THEN 4
                   ELSE IF difficulty = "Medium" THEN 3 ELSE 2
  IN ((15 + streak * 3) * twiceMult) \div 2

\* A variant of handleAnswer that does not look at feedback.
handleAnswerDuringFeedback(isCorrect) ==
  /\ screen.view = "game"
  /\ currentQ # noQuestion
  /\ IF ~gameActive
       THEN UNCHANGED <<stars, streak, maxStreak, feedback, timeouts>>
       ELSE /\ Len(timeouts) < MaxTimeouts
            /\ IF isCorrect
                 THEN /\ stars + award <= MaxStars
                      /\ stars' = stars + award
                      /\ streak' = streak + 1
                      /\ maxStreak' = IF maxStreak > streak + 1 THEN maxStreak
                                                               ELSE streak + 1
                      /\ feedback' = "correct"
                 ELSE /\ streak' = 0
                      /\ feedback' = "wrong"
                      /\ UNCHANGED <<stars, maxStreak>>
            /\ timeouts' = Append(timeouts, 0)
  /\ UNCHANGED <<difficulty, timer, gameActive, gameOver, currentQ, usedIndices,
                 interval, screen>>
  /\ UNCHANGED outsideGame

\* handleAnswer(selected, correct) from an answer button of a question that
\* has been shown; isCorrect is selected === correct.
handleAnswer(isCorrect) ==
  /\ screen.view = "game"
  /\ currentQ # noQuestion
  /\ IF ~gameActive \/ feedback # "none"
       THEN UNCHANGED <<stars, streak, maxStreak, feedback, timeouts>>
       ELSE /\ Len(timeouts) < MaxTimeouts
            /\ IF isCorrect
                 THEN /\ stars + award <= MaxStars
                      /\ stars' = stars + award
                      /\ streak' = streak + 1
                      /\ maxStreak' = IF maxStreak > streak + 1 THEN maxStreak
                                                               ELSE streak + 1
                      /\ feedback' = "correct"
                 ELSE /\ streak' = 0
                      /\ feedback' = "wrong"
                      /\ UNCHANGED <<stars, maxStreak>>
            /\ timeouts' = Append(timeouts, 0)
  /\ UNCHANGED <<difficulty, timer, gameActive, gameOver, currentQ, usedIndices,
                 interval, screen>>
  /\ UNCHANGED outsideGame

\* The callback of the oldest timeout of handleAnswer runs, FeedbackMs after
\* it was set: setFeedback(null); generateQuestion().
feedbackTimeout ==
  /\ timeouts # <<>>
  /\ Head(timeouts) = FeedbackMs
  /\ timeouts' = Tail(timeouts)
  /\ feedback' = "none"
  /\ \E q \in nextQuestions(usedIndices) :
       /\ currentQ' = IF q = noQuestion THEN currentQ ELSE q
       /\ usedIndices' = usedAfter(usedIndices, usedIndices, q)
  /\ afterRender(gameActive, timer, currentQ', gameOver)
  /\ UNCHANGED <<difficulty, stars, timer, streak, maxStreak, screen>>
  /\ UNCHANGED outsideGame

\* The callback of the interval runs, TickMs after the interval was set:
\* setTimer(t => t - 1).
Tick ==
  /\ interval = TickMs
  /\ timer' = timer - 1
  /\ afterRender(gameActive, timer', currentQ, gameOver)
  /\ UNCHANGED <<difficulty, stars, currentQ, streak, maxStreak, feedback,
                 usedIndices, timeouts, screen>>
  /\ UNCHANGED outsideGame

\* TimeStepMs pass, no timer being due.
TimePasses ==
  /\ interval # noInterval \/ timeouts # <<>>
  /\ interval < TickMs
  /\ \A i \in 1..Len(timeouts) : timeouts[i] < FeedbackMs
  /\ interval' = IF interval = noInterval THEN noInterval ELSE interval + TimeStepMs
  /\ timeouts' = [i \in 1..Len(timeouts) |-> timeouts[i] + TimeStepMs]
  /\ UNCHANGED <<difficulty, stars, timer, gameActive, gameOver, currentQ, streak,
                 maxStreak, feedback, usedIndices, screen>>
  /\ UNCHANGED outsideGame

\* The hook has loaded the text of the sheet with a foreground fetch, and
\* SheetBasedGame has its initial state.
GameInit ==
  /\ settings = DEFAULT_SETTINGS
  /\ url = settings.mathSheetUrl
  /\ gameType = <<>>
  /\ \E text \in {GameSheet, DocEmpty} :
       /\ data = filtered(parseCSV(text), gameType)
       /\ localStorage =
            [k \in {cacheKeyOf[url]} |->
               JSONstringify([data |-> text, timestamp |-> 0])]
  /\ loading = FALSE
  /\ error = null
  /\ retryTrigger = 0
  /\ fromCache = FALSE
  /\ quotaExceeded = FALSE
  /\ storageDenied = FALSE
  /\ now = 0
  /\ pending = {}
  /\ effectRuns = 1
  /\ activation = [fetch |-> "foreground", outcome |-> "fulfilled"]
  /\ trace = [on |-> FALSE, events |-> <<>>]
  /\ sheet = <<>>
  /\ showSettings = FALSE
  /\ localSettings = settings
  /\ urlErrors = [math |-> "", english |-> ""]
  /\ requests = <<>>
  /\ \E d \in GameDifficulties : gameConstructed(d)

GameNext ==
  \/ render
  \/ startGame
  \/ \E isCorrect \in BOOLEAN : handleAnswer(isCorrect)
  \/ feedbackTimeout
  \/ Tick
  \/ TimePasses

GameSpec == GameInit /\ [][GameNext]_vars

\* The game when time passes and every timer that is due fires; the player
\* acts or not.
GameLiveSpec ==
  GameInit /\ [][GameNext]_vars
    /\ WF_vars(TimePasses) /\ WF_vars(Tick) /\ WF_vars(feedbackTimeout)

(***************************************************************************)
(* Vocabulary of the properties                                            *)
(***************************************************************************)
gens(calls) == {q.gen : q \in calls}

\* The descriptions an attempt may fail with.
FailureMessages == Rejections \cup {httpMessage(r) : r \in {x \in Responses : ~ok(x)}}

\* This step is the failure, with message m, of the attempt of p in flight.
AttemptFails(p, m) ==
  \/ m \in Rejections /\ FetchRejects(p, m)
  \/ \E r \in Responses : ~ok(r) /\ httpMessage(r) = m /\ FetchResolves(p, r)

\* This step is the success of the call p with the text csv.
Fulfils(p, csv) ==
  \E r \in Responses : ok(r) /\ r.body = csv /\ FetchResolves(p, r)

\* This step is a run of the effect.
EffectRuns == effectRuns' = effectRuns + 1

\* The store holds, for u, an entry younger than CACHE_DURATION.
hasUnexpiredEntry(u) ==
  /\ cacheKeyOf[u] \in DOMAIN localStorage
  /\ isJSON(localStorage[cacheKeyOf[u]])
  /\ now - JSONparse(localStorage[cacheKeyOf[u]]).timestamp < CACHE_DURATION

\* The text of the entry stored for u.
cachedText(u) == JSONparse(localStorage[cacheKeyOf[u]]).data

(***************************************************************************)
(* Properties of useSheetData                                              *)
(***************************************************************************)

\* C1: when a load started for a (url, gameType) pair that is no longer the
\* current pair settles, its result is not applied: records, loading flag,
\* error and from-cache flag stay as they were.
C1_StaleLoadNeverApplied ==
  [][\A p \in pending :
       (/\ <<p.url, p.gameType>> # <<url, gameType>>
        /\ p.gen \notin gens(pending'))
       => UNCHANGED hookState]_vars

\* C2: once the foreground load of the latest run of the effect has succeeded,
\* the success of a background revalidation started by an earlier run does not
\* replace the records or the from-cache flag.
C2_LaterReadyNotOverwritten ==
  [][\A p \in pending, csv \in Docs :
       (/\ p.background
        /\ p.gen < effectRuns
        /\ activation = [fetch |-> "foreground", outcome |-> "fulfilled"]
        /\ Fulfils(p, csv))
       => (data' = data /\ fromCache' = fromCache)]_vars

\* C3: when the effect runs for a url whose stored entry is younger than
\* CACHE_DURATION, the records of that entry are shown with fromCache = TRUE
\* and loading = FALSE; and when the background revalidation later succeeds,
\* fromCache becomes FALSE, the records are those of the fetched text, and the
\* store holds the fetched text.
C3_CacheHitServedWithoutLoading ==
  [][/\ (EffectRuns /\ url' # "" /\ hasUnexpiredEntry(url'))
          => (/\ data' = filtered(parsed(cachedText(url')), gameType')
              /\ fromCache' = TRUE
              /\ loading' = FALSE)
     /\ \A p \in pending, csv \in Docs :
          (p.background /\ p.gen = effectRuns /\ Fulfils(p, csv))
          => (/\ fromCache' = FALSE
              /\ data' = filtered(parsed(csv), p.gameType)
              /\ (~quotaExceeded => cachedText(p.url)' = csv))]_vars

\* C4: when the last attempt of a background revalidation fails, nothing the
\* hook returns changes (records, loading, error and fromCache keep the values
\* shown from the cache) and the store is left as it was.
C4_BackgroundFailureInvisible ==
  [][\A p \in pending, m \in FailureMessages :
       (/\ p.background
        /\ p.attempt = p.maxRetries - 1
        /\ AttemptFails(p, m))
       => UNCHANGED <<data, loading, error, fromCache, localStorage>>]_vars

\* A background revalidation of the latest run has failed for good while the
\* records of the cache are shown.
C4_BackgroundFailed ==
  /\ activation = [fetch |-> "background", outcome |-> "rejected"]
  /\ fromCache = TRUE
  /\ loading = FALSE
  /\ error = null
  /\ data # <<>>
  /\ pending = {}

\* C5: when the effect runs for a url without a usable stored entry, loading
\* becomes TRUE; and when the foreground fetch of that run succeeds, the store
\* receives the fetched text, the records are the parsed and filtered text,
\* fromCache = FALSE, loading = FALSE and error = null.
C5_ForegroundSuccessEmitsReady ==
  [][/\ (EffectRuns /\ url' # "" /\ ~truthy(getCachedData(url').ret))
          => loading' = TRUE
     /\ \A p \in pending, csv \in Docs :
          (~p.background /\ p.gen = effectRuns /\ Fulfils(p, csv))
          => (/\ localStorage' = setCachedData(p.url, csv)
              /\ data' = filtered(parsed(csv), p.gameType)
              /\ fromCache' = FALSE
              /\ loading' = FALSE
              /\ error' = null)]_vars

\* C6: when an attempt of a foreground fetch fails, the hook reports it only
\* if it was the last of the maxRetries attempts: then error is the message of
\* that attempt, loading = FALSE and the store is untouched; after an earlier
\* attempt nothing changes and the call goes on.  No other step sets error.
C6_ErrorAfterAllAttempts ==
  [][/\ \A p \in pending, m \in FailureMessages :
          (~p.background /\ AttemptFails(p, m))
          => IF p.attempt = p.maxRetries - 1
               THEN /\ error' = m
                    /\ loading' = FALSE
                    /\ localStorage' = localStorage
                    /\ p.gen \notin gens(pending')
               ELSE /\ UNCHANGED <<hookState, localStorage>>
                    /\ p.gen \in gens(pending')
     /\ (error' # error /\ error' # null)
          => \E p \in pending, m \in FailureMessages :
               /\ ~p.background
               /\ p.attempt = p.maxRetries - 1
               /\ AttemptFails(p, m)
               /\ error' = m
     /\ \A p \in pending' : p.attempt < p.maxRetries]_vars

\* The foreground fetch of the latest run has failed for good and the hook
\* reports the failure of its last attempt.
C6_ForegroundFailed ==
  /\ activation = [fetch |-> "foreground", outcome |-> "rejected"]
  /\ error = "HTTP 404: Not Found"
  /\ loading = FALSE
  /\ pending = {}

\* C7: when the (url, gameType) pair changes to another sheet, the records of
\* the previous pair are no longer returned: the records are empty, or they
\* are those of the usable entry stored for the new pair.
C7_PairChangeResetsRecords ==
  [][(<<url', gameType'>> # <<url, gameType>> /\ url' # "")
       => \/ data' = <<>>
          \/ /\ truthy(getCachedData(url').ret)
             /\ data' = filtered(parsed(getCachedData(url').ret), gameType')]_vars

\* C8: when the effect runs with no url, the hook returns no records and
\* loading = FALSE, starts no fetch and does not touch the store, whatever
\* the state before.
C8_NoIdentifierIsEmptyReady ==
  [][(EffectRuns /\ url' = "")
       => (/\ data' = <<>>
           /\ loading' = FALSE
           /\ pending' = pending
           /\ localStorage' = localStorage)]_vars

\* C9: retry() runs the whole load again for the same (url, gameType): the
\* store is read anew, so that an entry written or expired since the previous
\* run decides between the cache path and the fetch path, and the new call
\* starts with its first attempt.
C9_RetryRerunsLoad ==
  [][retryTrigger' # retryTrigger =>
       /\ retryTrigger' = retryTrigger + 1
       /\ UNCHANGED <<url, gameType>>
       /\ EffectRuns
       /\ url # "" =>
            LET key == cacheKeyOf[url]
                present == key \in DOMAIN localStorage
                fresh == hasUnexpiredEntry(url)
                hit == fresh /\ cachedText(url) # <<>>
                started == pending' \ pending
            IN /\ pending \subseteq pending'
               /\ \E q \in started :
                    /\ started = {q}
                    /\ q.url = url /\ q.gameType = gameType
                    /\ q.attempt = 0 /\ q.awaiting = "fetch"
                    /\ q.maxRetries = maxRetriesDefault
                    /\ q.background = hit
               /\ IF hit
                    THEN /\ data' = filtered(parsed(cachedText(url)), gameType)
                         /\ fromCache' = TRUE
                         /\ loading' = FALSE
                         /\ localStorage' = localStorage
                    ELSE /\ loading' = TRUE
                         /\ error' = null
                         /\ fromCache' = FALSE
                         /\ IF present /\ ~fresh
                              THEN key \notin DOMAIN localStorage'
                              ELSE localStorage' = localStorage]_vars

\* After a first run that found no entry and fetched the sheet, retry() has
\* served the entry written by that fetch.
C9_RetryServedNewEntry ==
  /\ retryTrigger = 1
  /\ effectRuns = 2
  /\ url # ""
  /\ activation = [fetch |-> "background", outcome |-> "pending"]
  /\ fromCache = TRUE
  /\ cacheKeyOf[url] \in DOMAIN localStorage
  /\ cachedText(url) = DocB

\* The positions of rows whose game_type is g, and the k-th of them.
matchingPositions(rows, g) ==
  {i \in 1..Len(rows) : GAME_TYPE \in DOMAIN rows[i] /\ rows[i][GAME_TYPE] = g}
kthOf(positions, k) ==
  CHOOSE i \in positions : Cardinality({j \in positions : j < i}) = k - 1

\* result contains exactly the rows whose game_type is g, in their order, or
\* every row when g is empty.
isFilterOf(result, rows, g) ==
  IF g = <<>>
    THEN result = rows
    ELSE LET positions == matchingPositions(rows, g)
         IN /\ Len(result) = Cardinality(positions)
            /\ \A k \in 1..Len(result) : result[k] = rows[kthOf(positions, k)]

\* C10: whenever the hook publishes records, from the cache or from a fetch,
\* foreground or background, they are exactly the parsed rows whose game_type
\* equals the gameType of the load when it is non-empty, and all parsed rows
\* otherwise; the records change in no other step.
C10_EmissionsAreFiltered ==
  [][/\ \A p \in pending, csv \in Docs :
          Fulfils(p, csv) => isFilterOf(data', parsed(csv), p.gameType)
     /\ (EffectRuns /\ activation'.fetch = "background")
          => isFilterOf(data', parsed(cachedText(url')), gameType')
     /\ data' # data
          => \/ \E p \in pending, csv \in Docs : Fulfils(p, csv)
             \/ EffectRuns /\ activation'.fetch = "background"]_vars

\* The rows x,1 and x,3 of a sheet that also holds a row of another game are
\* the records of game x.
C10_OnlyMatchingRows ==
  /\ gameType = <<"x">>
  /\ Len(parsedDocs[DocA]) = 3
  /\ data = <<parsedDocs[DocA][1], parsedDocs[DocA][3]>>

(***************************************************************************)
(* Properties of fetchWithRetry (under FetchSpec)                          *)
(***************************************************************************)

\* The maxRetries the recorded call was made with.
calledWith == trace.events[1].maxRetries

\* No attempt of the recorded call has succeeded.
noneReturned == \A i \in 1..Len(trace.events) : trace.events[i].kind # "returned"

\* C11: when every attempt fails, fetchWithRetry makes exactly maxRetries
\* attempts, numbered from 0; it waits nothing before attempt 0, waits
\* 2^(k-1)*1000 ms before attempt k >= 1 (1000 ms then 2000 ms when maxRetries
\* is 3), waits nothing after the last attempt, and then throws the failure of
\* the last attempt.
C11_BackoffSchedule ==
  LET ev == trace.events
      n == calledWith
  IN noneReturned =>
       /\ Len(ev) <= 2 * n + 1
       /\ (pending = {}) <=> (Len(ev) = 2 * n + 1)
       /\ \A i \in 2..Len(ev) :
            IF i = 2 * n + 1
              THEN ev[i].kind = "threw" /\ ev[i].message = ev[i - 1].message
            ELSE IF i % 2 = 0
              THEN ev[i].kind = "failed" /\ ev[i].attempt = (i - 2) \div 2
              ELSE ev[i].kind = "waited" /\ ev[i].ms = 2 ^ (((i - 1) \div 2) - 1) * 1000
       /\ (n = 3 /\ Len(ev) >= 5) => (ev[3].ms = 1000 /\ ev[5].ms = 2000)

\* Four attempts have failed, after waits of 1, 2 and 4 seconds, and the call
\* has thrown the failure of the fourth, which differs from that of the first.
C11_FourAttemptsFailed ==
  /\ pending = {}
  /\ calledWith = 4
  /\ Len(trace.events) = 9
  /\ trace.events[2].message = "Failed to fetch"
  /\ trace.events[7] = [kind |-> "waited", ms |-> 4000]
  /\ trace.events[9] = [kind |-> "threw", message |-> "HTTP 404: Not Found"]
  /\ error = "HTTP 404: Not Found"

\* C12: fetchWithRetry returns the text of the first attempt that succeeds and
\* then does nothing more; the failures before it are not reported to the
\* caller; and after a failed attempt of either kind (rejected fetch or
\* response that is not ok) a wait and the next attempt follow as long as
\* attempts remain.
C12_FirstSuccessReturned ==
  LET ev == trace.events
      n == calledWith
  IN /\ \A i \in 2..Len(ev) :
          ev[i].kind = "returned" =>
            /\ i = Len(ev)
            /\ pending = {}
            /\ \A j \in 2..(i - 1) : ev[j].kind \in {"failed", "waited"}
            /\ activation.outcome = "fulfilled"
            /\ cachedText(url) = ev[i].text
            /\ data = filtered(parsed(ev[i].text), gameType)
            /\ loading = FALSE
            /\ error = null
     /\ (ev[Len(ev)].kind # "threw") => error = null
     /\ \A i \in 2..Len(ev) :
          (ev[i].kind = "failed" /\ ev[i].attempt < n - 1) =>
            /\ (i = Len(ev)) =>
                 \E p \in pending : p.awaiting = "delay" /\ p.attempt = ev[i].attempt
            /\ (i < Len(ev)) => ev[i + 1].kind = "waited"
            /\ (i + 1 < Len(ev)) =>
                 /\ ev[i + 2].kind \in {"failed", "returned"}
                 /\ ev[i + 2].attempt = ev[i].attempt + 1

\* The third attempt has succeeded after a rejected fetch and a response that
\* was not ok, and the hook shows the records of its text and no error.
C12_ThirdAttemptReturned ==
  /\ trace.events =
       <<[kind |-> "called", maxRetries |-> 3],
         [kind |-> "failed", attempt |-> 0, message |-> "Failed to fetch"],
         [kind |-> "waited", ms |-> 1000],
         [kind |-> "failed", attempt |-> 1, message |-> "HTTP 404: Not Found"],
         [kind |-> "waited", ms |-> 2000],
         [kind |-> "returned", attempt |-> 2, text |-> DocB]>>
  /\ pending = {}
  /\ error = null
  /\ data # <<>>

\* C13: a response whose status is outside 200..399 is a failed attempt: its
\* body is not returned (records and store stay as they were), another attempt
\* follows a wait while attempts remain, and after the last attempt the error
\* reported names the status.
C13_BadStatusIsFailure ==
  [][\A p \in pending, response \in Responses :
       (/\ (response.status < 200 \/ response.status > 399)
        /\ FetchResolves(p, response))
       => /\ UNCHANGED <<data, localStorage>>
          /\ \A i \in 1..Len(trace'.events) : trace'.events[i].kind # "returned"
          /\ activation'.outcome # "fulfilled"
          /\ IF p.attempt < p.maxRetries - 1
               THEN /\ UNCHANGED <<loading, error>>
                    /\ \E q \in pending' : q.attempt = p.attempt /\ q.awaiting = "delay"
               ELSE /\ pending' = {}
                    /\ loading' = FALSE
                    /\ response.status = 404 => error' = "HTTP 404: Not Found"]_vars

\* A call allowed two attempts got a 404 response twice and reported it.
C13_Reported404 ==
  /\ calledWith = 2
  /\ Len(trace.events) = 5
  /\ trace.events[2].kind = "failed"
  /\ trace.events[2].message = "HTTP 404: Not Found"
  /\ trace.events[Len(trace.events)] = [kind |-> "threw", message |-> "HTTP 404: Not Found"]
  /\ error = "HTTP 404: Not Found"
  /\ localStorage = <<>>
  /\ data = <<>>

(***************************************************************************)
(* Properties of the cache (under CacheSpec)                               *)
(***************************************************************************)

\* The store holds a parsable entry for u.
hasEntry(u) ==
  cacheKeyOf[u] \in DOMAIN localStorage /\ isJSON(localStorage[cacheKeyOf[u]])

\* The time at which the entry stored for u was written.
writtenAt(u) == JSONparse(localStorage[cacheKeyOf[u]]).timestamp

\* The run of the effect in this step found nothing usable in the store.
missed ==
  /\ fromCache' = FALSE
  /\ loading' = TRUE
  /\ activation'.fetch = "foreground"

\* C14: an entry written at time T is returned by a read at every time up to
\* and including T + 3,599,999 ms, and is absent for a read at T + 3,600,000 ms
\* or later.
C14_TtlBoundary ==
  [][\A u \in Urls :
       (EffectRuns /\ url' = u /\ ~storageDenied /\ hasEntry(u)) =>
         IF now <= writtenAt(u) + 3599999
           THEN /\ getCachedData(u).ret = cachedText(u)
                /\ cachedText(u) # <<>> =>
                     /\ fromCache' = TRUE
                     /\ loading' = FALSE
                     /\ data' = filtered(parsed(cachedText(u)), gameType')
           ELSE /\ getCachedData(u).ret = nullText
                /\ missed]_vars

\* The effect has run 3,599,999 ms after the entry of its url was written and
\* shows the records of that entry.
C14_ServedInLastMillisecond ==
  /\ effectRuns = 1
  /\ url # ""
  /\ hasEntry(url)
  /\ writtenAt(url) = 0
  /\ now = 3599999
  /\ fromCache = TRUE
  /\ activation = [fetch |-> "background", outcome |-> "pending"]
  /\ data # <<>>

\* C15: getCachedData returns null when nothing is stored for the url, when
\* what is stored cannot be parsed, and when the entry is 3,600,000 ms old or
\* older, in which case the entry is removed from the store; the read of a
\* younger entry returns exactly the text that was written and leaves the
\* store as it is.
C15_ReadOutcomes ==
  [][/\ \A u \in Urls :
          (EffectRuns /\ url' = u /\ ~storageDenied) =>
            LET key == cacheKeyOf[u]
            IN IF key \notin DOMAIN localStorage
                 THEN /\ getCachedData(u).ret = nullText
                      /\ missed
                      /\ localStorage' = localStorage
               ELSE IF ~isJSON(localStorage[key])
                 THEN /\ getCachedData(u).ret = nullText
                      /\ missed
               ELSE IF now - writtenAt(u) >= 3600000
                 THEN /\ getCachedData(u).ret = nullText
                      /\ missed
                      /\ localStorage' =
                           [k \in DOMAIN localStorage \ {key} |-> localStorage[k]]
                 ELSE /\ getCachedData(u).ret = cachedText(u)
                      /\ localStorage' = localStorage
                      /\ cachedText(u) # <<>> =>
                           /\ fromCache' = TRUE
                           /\ data' = filtered(parsed(cachedText(u)), gameType')
     /\ \A p \in pending, csv \in Docs :
          (Fulfils(p, csv) /\ ~quotaExceeded /\ ~storageDenied) =>
            /\ hasEntry(p.url)'
            /\ cachedText(p.url)' = csv
            /\ writtenAt(p.url)' = now]_vars

\* retry() has found the entry that served the first run expired, and has
\* removed it: the revalidation of the first run is still in flight, so
\* nothing else touched the store.
C15_ExpiredEntryRemoved ==
  /\ retryTrigger = 1
  /\ effectRuns = 2
  /\ now >= 3600000
  /\ localStorage = <<>>
  /\ activation = [fetch |-> "foreground", outcome |-> "pending"]
  /\ \E p \in pending : p.gen = 1 /\ p.background

\* C16: a failure of localStorage never surfaces: a failed write leaves the
\* store as it was, a failed read counts as a miss, and the foreground load
\* whose fetch succeeded while the write failed ends with the fetched records,
\* loading = FALSE and error = null.
C16_StoreFailureNeverSurfaces ==
  [][/\ (EffectRuns /\ url' # "" /\ storageDenied) =>
          (missed /\ error' = null /\ localStorage' = localStorage)
     /\ \A p \in pending, csv \in Docs :
          (Fulfils(p, csv) /\ (quotaExceeded \/ storageDenied)) =>
            /\ localStorage' = localStorage
            /\ (~p.background /\ p.gen = effectRuns) =>
                 /\ data' = filtered(parsed(csv), p.gameType)
                 /\ loading' = FALSE
                 /\ error' = null]_vars

(***************************************************************************)
(* Properties of parseCSV (under ParseSpec)                                *)
(***************************************************************************)

\* The hook has parsed the stored text of the sheet.
parsedSheet == effectRuns = 1 /\ fromCache = TRUE

blank(text) == trim(text) = <<>>

\* The keys of the records of a sheet whose header is the line ln.
keysOf(ln) == {toLowerCase(cleanValue(ln.cells[j].value)) : j \in 1..Len(ln.cells)}

\* A header of plain, distinct, non-blank names, and under it rows of as many
\* cells as the header, none of them empty or all blank.
wellFormed(sh) ==
  /\ Len(sh) >= 1
  /\ \A i \in 1..Len(sh) :
       /\ ~blank(lineText(sh[i]))
       /\ Len(sh[i].cells) = Len(sh[1].cells)
  /\ \A j \in 1..Len(sh[1].cells) :
       /\ ~sh[1].cells[j].quoted
       /\ ~blank(sh[1].cells[j].value)
       /\ \A m \in 1..Len(sh[1].cells) :
            toLowerCase(sh[1].cells[m].value) = toLowerCase(sh[1].cells[j].value)
              => m = j
  /\ \A i \in 2..Len(sh) : \E j \in 1..Len(sh[i].cells) : ~blank(sh[i].cells[j].value)

\* C17: for a well-formed text of a header line and N rows, none of them fully
\* blank, parseCSV returns N records, in the order of the rows (record k holds
\* the cells of row k), each with every lower-cased header as a key.
C17_WellFormedRowsAllParsed ==
  (parsedSheet /\ wellFormed(sheet)) =>
    /\ Len(data) = Len(sheet) - 1
    /\ \A k \in 1..Len(data) :
         /\ DOMAIN data[k] = keysOf(sheet[1])
         /\ \A j \in 1..Len(sheet[1].cells) :
              data[k][toLowerCase(sheet[1].cells[j].value)]
                = cleanValue(sheet[k + 1].cells[j].value)

\* The value of the quoted first cell of the row of a sheet of CellSheets.
quotedValue == sheet[2].cells[1].value

has(text, c) == \E i \in 1..Len(text) : text[i] = c

\* C18: a quoted field that contains a comma or a line break, at any position,
\* is one field of one record, and its parsed value is the content of the
\* field with the comma and the line break in it (and each doubled quote as
\* one quote).
C18_QuotedFieldLiteral ==
  (/\ parsedSheet
   /\ sheet \in CellSheets
   /\ has(quotedValue, COMMA) \/ has(quotedValue, LF))
  => /\ Len(data) = 1
     /\ DOMAIN data[1] = keysOf(sheet[1])
     /\ data[1][<<"h">>] = quotedValue

\* C19: inside a quoted field every doubled quote becomes one quote of the
\* parsed value, whatever the content: also when it begins and ends with a
\* quote, or consists of quotes only.
C19_DoubledQuotesDecode ==
  (/\ parsedSheet
   /\ sheet \in CellSheets
   /\ quotedValue \in SeqsUpTo({"a", QUOTE}, MaxCellLen)
   /\ has(quotedValue, QUOTE))
  => /\ Len(data) = 1
     /\ data[1][<<"h">>] = quotedValue

\* The lines of a sheet that are not empty or white space only.
retainedLines(sh) ==
  LET kept(ln) == ~blank(lineText(ln)) IN SelectSeq(sh, kept)

\* C20: outside quotes each \n, \r and \r\n ends a row, inside quotes none
\* does, and empty or white-space-only lines are dropped: the rows are the
\* texts of the other lines, in order; the first of them is the header and
\* the rest are the data rows.
C20_RowSeparators ==
  LET kept == retainedLines(sheet)
  IN /\ splitRows(sheetText(sheet)) = [i \in 1..Len(kept) |-> lineText(kept[i])]
     /\ parsedSheet =>
          /\ \A k \in 1..Len(data) : DOMAIN data[k] = keysOf(kept[1])
          /\ data = <<>> \/ Len(data) <= Len(kept) - 1
          /\ (/\ Len(kept) >= 1
              /\ Cardinality(keysOf(kept[1])) = Len(kept[1].cells)
              /\ \A i \in 2..Len(kept) : ~blank(cleanValue(kept[i].cells[1].value)))
               => Len(data) = Len(kept) - 1

\* A header ended by \r\n, a line of white space ended by \n and a row with a
\* line break inside quotes ended by \r have been parsed into one record.
C20_ThreeSeparatorsOneRecord ==
  /\ parsedSheet
  /\ sheet = <<[cells |-> <<plain(<<"h">>), plain(<<"K">>)>>, eol |-> <<CR, LF>>],
               [cells |-> <<plain(<<" ">>)>>, eol |-> <<LF>>],
               [cells |-> <<quotedCell(<<"a", LF, "b">>)>>, eol |-> <<CR>>]>>
  /\ Len(data) = 1
  /\ data[1][<<"h">>] = <<"a", LF, "b">>
  /\ data[1][<<"k">>] = <<>>

\* The key of column j of the header hd.
keyAt(hd, j) == toLowerCase(cleanValue(hd.cells[j].value))

\* Column j is the last column of its name in the header hd.
isLastOfName(hd, j) ==
  \A m \in (j + 1)..Len(hd.cells) : keyAt(hd, m) # keyAt(hd, j)

\* The field a row ln has under key: the trimmed cell of the last column of
\* that name, or the empty string when the row ends before that column.
fieldOf(hd, ln, key) ==
  LET j == CHOOSE c \in 1..Len(hd.cells) : keyAt(hd, c) = key /\ isLastOfName(hd, c)
  IN IF j <= Len(ln.cells) THEN trim(ln.cells[j].value) ELSE <<>>

\* The rows under the header that have a field that is not empty.
rowsShown(sh) ==
  LET kept == retainedLines(sh)
      hasField(ln) == \E key \in keysOf(kept[1]) : fieldOf(kept[1], ln, key) # <<>>
  IN IF Len(kept) < 2 THEN <<>> ELSE SelectSeq(Tail(kept), hasField)

\* The sheets whose cells hold no quote character.
quoteFree == sheet \notin CellSheets

\* C21: the first retained line is the header; the keys of every record are
\* the lower-cased header cells, each once, and under a name that several
\* columns bear the record holds the cell of the last of them.
C21_HeaderKeysLastWins ==
  (parsedSheet /\ quoteFree) =>
    LET hd == retainedLines(sheet)[1]
        rows == rowsShown(sheet)
    IN /\ Len(data) = Len(rows)
       /\ \A k \in 1..Len(data) :
            /\ DOMAIN data[k] = {keyAt(hd, j) : j \in 1..Len(hd.cells)}
            /\ \A j \in 1..Len(hd.cells) :
                 (j <= Len(rows[k].cells) /\ isLastOfName(hd, j))
                   => data[k][keyAt(hd, j)] = trim(rows[k].cells[j].value)

\* Under the header h,k,H the row a, ,b has become the record h = b, k = ''.
C21_LaterColumnWon ==
  /\ parsedSheet
  /\ sheet = <<[cells |-> <<plain(<<"h">>), plain(<<"k">>), plain(<<"H">>)>>,
                eol |-> <<LF>>],
               [cells |-> <<plain(<<"a">>), plain(<<" ">>), plain(<<"b">>)>>,
                eol |-> <<>>]>>
  /\ data = <<(<<"h">> :> <<"b">>) @@ (<<"k">> :> <<>>)>>

\* C22: a row with fewer values than the header has cells yields a record in
\* which the keys of the missing columns are present with the empty string;
\* of a row with more values the record holds the values of the header's
\* columns only.
C22_ShortAndLongRows ==
  (parsedSheet /\ quoteFree) =>
    LET hd == retainedLines(sheet)[1]
        rows == rowsShown(sheet)
    IN /\ Len(data) = Len(rows)
       /\ \A k \in 1..Len(data) :
            /\ \A j \in (Len(rows[k].cells) + 1)..Len(hd.cells) :
                 /\ keyAt(hd, j) \in DOMAIN data[k]
                 /\ isLastOfName(hd, j) => data[k][keyAt(hd, j)] = <<>>
            /\ Len(rows[k].cells) > Len(hd.cells) =>
                 /\ Cardinality(DOMAIN data[k]) <= Len(hd.cells)
                 /\ \A key \in DOMAIN data[k] :
                      \E j \in 1..Len(hd.cells) :
                        keyAt(hd, j) = key /\ data[k][key] = trim(rows[k].cells[j].value)

\* Under the header h,K the row b has become the record h = b, k = '' and the
\* row a,,b the record h = a, k = ''.
C22_PaddedAndCut ==
  /\ parsedSheet
  /\ sheet = <<[cells |-> <<plain(<<"h">>), plain(<<"K">>)>>, eol |-> <<LF>>],
               [cells |-> <<plain(<<"b">>)>>, eol |-> <<LF>>],
               [cells |-> <<plain(<<"a">>), plain(<<>>), plain(<<"b">>)>>,
                eol |-> <<LF>>]>>
  /\ data = <<(<<"h">> :> <<"b">>) @@ (<<"k">> :> <<>>),
              (<<"h">> :> <<"a">>) @@ (<<"k">> :> <<>>)>>

\* C23: the records are those of the rows that have a field which is not
\* empty after trimming, in the order of the rows; no record of the result
\* has only empty fields, and no row with a non-empty field is left out.
C23_BlankRecordsExcluded ==
  (parsedSheet /\ quoteFree) =>
    LET hd == retainedLines(sheet)[1]
        rows == rowsShown(sheet)
    IN /\ Len(data) = Len(rows)
       /\ \A k \in 1..Len(data) :
            /\ \E key \in DOMAIN data[k] : data[k][key] # <<>>
            /\ \A key \in DOMAIN data[k] \cap keysOf(hd) :
                 data[k][key] = fieldOf(hd, rows[k], key)

\* Under the header h,K the row of a blank and an empty cell has been left
\* out and the row a,b after it is the only record.
C23_BlankRowLeftOut ==
  /\ parsedSheet
  /\ sheet = <<[cells |-> <<plain(<<"h">>), plain(<<"K">>)>>, eol |-> <<LF>>],
               [cells |-> <<plain(<<" ">>), plain(<<>>)>>, eol |-> <<LF>>],
               [cells |-> <<plain(<<"a">>), plain(<<"b">>)>>, eol |-> <<LF>>]>>
  /\ data = <<(<<"h">> :> <<"a">>) @@ (<<"k">> :> <<"b">>)>>

\* C24: parseCSV fails on no input and returns no records for null, for the
\* empty text and for a text with fewer than two retained lines; the hook
\* that parsed such a stored text shows no records and no error.
C24_NoRecordsWithoutDataRows ==
  /\ parseCSV(nullText) = <<>>
  /\ parseCSV(<<>>) = <<>>
  /\ Len(retainedLines(sheet)) < 2 =>
       /\ parseCSV(sheetText(sheet)) = <<>>
       /\ effectRuns >= 1 => (data = <<>> /\ error = null)
       /\ parsedSheet => loading = FALSE

\* The stored text was a header line only, and the hook shows no records.
C24_HeaderOnlyParsed ==
  /\ parsedSheet
  /\ sheet = <<[cells |-> <<plain(<<"h">>), plain(<<"K">>)>>, eol |-> <<LF>>]>>
  /\ data = <<>>
  /\ loading = FALSE
  /\ error = null

SaveSucceeds == handleSave /\ showSettings' = FALSE

\* C26: a Save that succeeds with a settingsSheetUrl that is not blank sends
\* exactly one request, a POST to that URL whose body holds timestamp,
\* mathSheetUrl, englishSheetUrl, defaultDifficulty and soundEnabled of the
\* saved settings and nothing else; a Save with an empty or blank
\* settingsSheetUrl sends nothing; and no other step of the page sends
\* anything, so that every request goes to the settingsSheetUrl of its Save.
C26_SaveSendsOnePost ==
  [][/\ SaveSucceeds =>
          IF trim(localSettings.settingsSheetUrl) # <<>>
            THEN /\ Len(requests') = Len(requests) + 1
                 /\ SubSeq(requests', 1, Len(requests)) = requests
                 /\ LET sent == requests'[Len(requests')]
                    IN /\ sent.method = "POST"
                       /\ sent.url = localSettings.settingsSheetUrl
                       /\ isJSON(sent.body)
                       /\ JSONparse(sent.body) =
                            [timestamp |-> toISOString(now),
                             mathSheetUrl |-> localSettings.mathSheetUrl,
                             englishSheetUrl |-> localSettings.englishSheetUrl,
                             defaultDifficulty |-> localSettings.defaultDifficulty,
                             soundEnabled |-> localSettings.soundEnabled]
            ELSE requests' = requests
     /\ requests' # requests => SaveSucceeds
     /\ \A i \in 1..Len(requests') :
          i > Len(requests) => requests'[i].url = localSettings.settingsSheetUrl]_vars

\* Two Saves with the sync URL have each sent one POST, the second with the
\* other math sheet and difficulty, and a third Save with a blank sync URL has
\* sent none.
C26_TwoPostsThenNone ==
  /\ ~showSettings
  /\ Len(requests) = 2
  /\ requests[1].url = <<"u">>
  /\ JSONparse(requests[1].body).mathSheetUrl = mathSheetUrl
  /\ JSONparse(requests[2].body).mathSheetUrl = englishSheetUrl
  /\ JSONparse(requests[2].body).defaultDifficulty = "Easy"
  /\ settings.settingsSheetUrl = <<" ">>
  /\ settings.defaultDifficulty = "None"

(***************************************************************************)
(* Further properties of useSheetData and the cache (under Spec)           *)
(***************************************************************************)

\* C27: the text written to the store for one sheet URL is never what a read
\* for another sheet URL of the settings returns: when a fetch for p.url
\* succeeds and its text is stored, a read for any other URL returns what it
\* returned before.
C27_WriteNotReadForOtherUrl ==
  [][\A p \in pending, csv \in Docs :
       Fulfils(p, csv) =>
         \A u \in UrlProps \ {"", p.url} :
           getCachedDataIn(localStorage', u, now).ret
             = getCachedDataIn(localStorage, u, now).ret]_vars

\* C28: whenever the effect serves the records of the store, the hook returns
\* them with fromCache = TRUE, loading = FALSE and error = null, whatever the
\* state before, also after a load that ended with an error.
C28_CacheHitClearsError ==
  [][(EffectRuns /\ activation'.fetch = "background")
       => (/\ fromCache' = TRUE
           /\ loading' = FALSE
           /\ error' = null)]_vars

\* C29: when the effect runs for a url for which the store holds a fetched
\* text younger than CACHE_DURATION, whatever that text is (also the empty
\* text or a text without rows), the hook serves it: fromCache = TRUE,
\* loading is not set, and the fetch it starts is the background one.
C29_StoredTextIsServed ==
  [][(EffectRuns /\ url' # "" /\ hasUnexpiredEntry(url'))
       => (/\ fromCache' = TRUE
           /\ loading' = FALSE
           /\ activation'.fetch = "background")]_vars

\* C30: each run of the effect with a url starts exactly one call of
\* fetchWithRetry, for the url and gameType of the run: a background call if
\* the read of the store returned a text, a foreground call otherwise; a run
\* without url starts none; no other step starts a call; and no call goes
\* beyond its third attempt.
C30_OneFetchPerActivation ==
  [][/\ EffectRuns =>
          LET started == pending' \ pending
              hit == hasUnexpiredEntry(url') /\ cachedText(url') # <<>>
          IN /\ pending \subseteq pending'
             /\ IF url' = ""
                  THEN started = {}
                  ELSE \E q \in started :
                         /\ started = {q}
                         /\ q.gen = effectRuns'
                         /\ q.url = url' /\ q.gameType = gameType'
                         /\ q.attempt = 0 /\ q.awaiting = "fetch"
                         /\ q.background = hit
                         /\ fromCache' = hit
                         /\ loading' = ~hit
     /\ ~EffectRuns => gens(pending') \subseteq gens(pending)
     /\ \A q \in pending', r \in pending' : q.gen = r.gen => q = r
     /\ \A q \in pending' : q.attempt < maxRetriesDefault]_vars

\* The first run missed the store and its foreground call is in flight; the
\* second run hit it, and its background call is at its third attempt.
C30_BackgroundAtThirdAttempt ==
  /\ effectRuns = 2
  /\ activation = [fetch |-> "background", outcome |-> "pending"]
  /\ \E q \in pending, r \in pending :
       /\ pending = {q, r}
       /\ q.gen = 1 /\ ~q.background /\ q.attempt = 0
       /\ r.gen = 2 /\ r.background /\ r.attempt = 2 /\ r.awaiting = "fetch"

(***************************************************************************)
(* Claims about the states of the hook, its termination and its store      *)
(***************************************************************************)
\* C31: in every state the hook can reach, whatever the interleaving of
\* overlapping loads, loading = TRUE implies error = null and
\* fromCache = FALSE.
C31_LoadingExcludesErrorAndCache ==
  loading = TRUE => (error = null /\ fromCache = FALSE)

\* The first load failed and nothing was stored; the retry is loading with
\* the error cleared, its call still in flight.
C31_LoadingAgainAfterFailure ==
  /\ effectRuns = 2
  /\ retryTrigger = 1
  /\ loading = TRUE /\ error = null /\ fromCache = FALSE
  /\ localStorage = <<>> /\ ~quotaExceeded
  /\ activation = [fetch |-> "foreground", outcome |-> "pending"]
  /\ \A q \in pending : q.gen = 2

\* C33: the store holds the fetched text whatever the gameType of the load
\* that fetched it: when the effect runs for the same url with another
\* gameType while the entry is younger than CACHE_DURATION, it serves the
\* store (fromCache = TRUE, loading = FALSE) and data is exactly the records
\* of the stored text whose game_type is the new gameType, before any fetch
\* has completed.
C33_StoredTextServesOtherGameType ==
  [][(/\ EffectRuns
      /\ url' = url /\ url' # "" /\ gameType' # gameType
      /\ activation.outcome = "fulfilled"
      /\ hasUnexpiredEntry(url'))
       => (/\ fromCache' = TRUE
           /\ loading' = FALSE
           /\ data' = filtered(parsed(cachedText(url')), gameType'))]_vars

\* The key of every modelled url is the prefix "sheet-cache-" followed by at
\* most 50 characters, and computing it again gives the same key.
keysAreBounded ==
  \A u \in Urls :
    /\ cacheKeyOf[u][1] = "sheet-cache-"
    /\ Len(cacheKeyOf[u]) - 1 <= 50
    /\ getCacheKey(u) = cacheKeyOf[u]

\* The two stores agree outside the key k.
sameExceptAt(k, before, after) ==
  \A j \in (DOMAIN before \cup DOMAIN after) \ {k} :
    /\ j \in DOMAIN before /\ j \in DOMAIN after
    /\ before[j] = after[j]

\* C35: getCacheKey is a function of the url alone and its key is
\* "sheet-cache-" and at most 50 characters; every write and every read for
\* a url address that one key of the store: a successful fetch writes its
\* text there and nowhere else, a run of the effect touches no other key
\* and is served, if at all, the text stored there.
C35_OneBoundedKeyPerUrl ==
  [][/\ keysAreBounded
     /\ \A p \in pending, csv \in Docs :
          Fulfils(p, csv) =>
            /\ sameExceptAt(cacheKeyOf[p.url], localStorage, localStorage')
            /\ ~quotaExceeded =>
                 /\ cacheKeyOf[p.url] \in DOMAIN localStorage'
                 /\ JSONparse(localStorage'[cacheKeyOf[p.url]]).data = csv
     /\ (EffectRuns /\ url' # "") =>
          /\ sameExceptAt(cacheKeyOf[url'], localStorage, localStorage')
          /\ fromCache' =>
               /\ cacheKeyOf[url'] \in DOMAIN localStorage'
               /\ data' = filtered(parsed(cachedText(url')), gameType')]_vars

\* The first load of the custom url wrote DocB under its 51-element key, and
\* the retry read it back from that key.
C35_WrittenThenReadAtOneKey ==
  /\ effectRuns = 2 /\ retryTrigger = 1
  /\ url = customSheetUrl
  /\ fromCache = TRUE
  /\ activation.fetch = "background"
  /\ DOMAIN localStorage = {cacheKeyOf[url]}
  /\ Len(cacheKeyOf[url]) <= 51
  /\ cachedText(url) = DocB
  /\ data = filtered(parsed(DocB), gameType)

(***************************************************************************)
(* Claims about unbalanced quotes                                          *)
(***************************************************************************)
\* C36: on a text with an unmatched opening quote parseCSV returns without
\* throwing; everything from that quote to the end of the text, line breaks
\* and commas included, stays in one row and one field, and no row
\* separator after the quote is recognised.
C36_UnclosedQuoteKeepsOneRow ==
  sheet \in UnclosedSheets =>
    LET last == sheet[Len(sheet)]
        open == last.cells[Len(last.cells)]
        rows == splitRows(sheetText(sheet))
    IN /\ Len(rows) = Len(sheet)
       /\ \A i \in 1..Len(sheet) : rows[i] = lineText(sheet[i])
       /\ SubSeq(rows[Len(rows)], Len(rows[Len(rows)]) - Len(open.value),
                 Len(rows[Len(rows)])) = <<QUOTE>> \o open.value
       /\ parsedSheet =>
            /\ error = null /\ loading = FALSE
            /\ Len(data) = Len(sheet) - 1
            /\ Len(sheet) >= 2 =>
                 /\ data[Len(data)][<<"h">>] = <<"a">>
                 /\ data[Len(data)][<<"k">>] = trim(open.value)

\* A sheet whose last row opens a quote followed by a line break, a letter
\* and a comma has been parsed: the row is the last of two records.
C36_LineBreakAfterOpenQuote ==
  /\ parsedSheet
  /\ sheet \in UnclosedSheets
  /\ Len(sheet) = 3
  /\ sheet[3].cells[2].value = <<LF, "a", COMMA>>
  /\ Len(data) = 2
  /\ data[2][<<"k">>] = <<"a", COMMA>>

(***************************************************************************)
(* Claims about saving settings                                            *)
(***************************************************************************)
\* The two sheet URLs of s pass validateGoogleSheetUrl.
passValidation(s) ==
  /\ urlErrorOf[s.mathSheetUrl] = ""
  /\ urlErrorOf[s.englishSheetUrl] = ""

expectedTitle(m) ==
  CASE m \in {"Failed to fetch", "NetworkError when attempting to fetch resource.",
              "NetworkError: CORS request did not succeed"} -> "Network Error"
    [] m \in {"HTTP 404: Not Found", "HTTP 404: "} -> "Sheet Not Found"
    [] m = "HTTP 403: Forbidden" -> "Access Denied"
    [] m \in {"HTTP 500: Internal Server Error", "HTTP 500: JSON parse error",
              "HTTP 503: Service Unavailable"} -> "Server Error"
    [] m = "CORS request did not succeed" -> "Security Error"
    [] m = "Failed to parse URL from q.csv" -> "Data Format Error"
    [] OTHER -> "Connection Error"

\* C34: getErrorDetails gives every failure message one category, testing
\* in the fixed order network, HTTP 404, HTTP 403, HTTP 500 or 503,
\* CORS, parse or JSON, and generic otherwise; so the error screen of a load
\* whose last attempt got status 404, 403, 500 or 503 is titled not found,
\* access denied and server error respectively.
C34_ErrorCategories ==
  screen.view = "error" =>
       /\ ~loading
       /\ error \in ErrorRejections \cup {httpMessage(r) : r \in ErrorResponses}
       /\ screen.errorDetails.title = expectedTitle(error)
       /\ \A r \in ErrorResponses :
            error = httpMessage(r) =>
              /\ r.status = 404 => screen.errorDetails.title = "Sheet Not Found"
              /\ r.status = 403 => screen.errorDetails.title = "Access Denied"
              /\ r.status \in {500, 503} => screen.errorDetails.title = "Server Error"

\* The third attempt got status 500 with a reason phrase that holds 'JSON'
\* and 'parse', and the error screen is the one of a server error.
C34_ServerErrorShown ==
  /\ pending = {}
  /\ error = "HTTP 500: JSON parse error"
  /\ screen = [view |-> "error",
               errorDetails |-> [title |-> "Server Error",
                                 message |-> "Google Sheets is temporarily unavailable"]]

(***************************************************************************)
(* Claims about termination                                                *)
(***************************************************************************)
\* C32: when every fetch settles and every backoff delay ends, each call of
\* fetchWithRetry ends, never making more than maxRetries attempts, every
\* load that set loading = TRUE gets to loading = FALSE, and once the props
\* stop changing and retry is no longer called loading stays FALSE.
C32_LoadingEnds ==
  /\ [](\A p \in pending : p.attempt < p.maxRetries)
  /\ \A g \in 1..MaxEffectRuns :
       (\E p \in pending : p.gen = g) ~> ~(\E p \in pending : p.gen = g)
  /\ (effectRuns >= 1 /\ loading) ~> ~loading
  /\ <>[](effectRuns >= 1 => ~loading)

\* Two loads overlapped, both calls have ended, the later one after three
\* failed attempts, and loading is FALSE.
C32_BothLoadsEnded ==
  /\ effectRuns = 2
  /\ pending = {}
  /\ activation = [fetch |-> "foreground", outcome |-> "rejected"]
  /\ loading = FALSE
  /\ error # null

(***************************************************************************)
(* Claims about the game                                                   *)
(***************************************************************************)
\* C38: the timer never goes below 0; it changes only by one down, while
\* the game is active with a question loaded, or by startGame; at 0 the game
\* is no longer active and is over; and, time passing and timers firing, an
\* active game with a question loaded ends.
C38_ActiveGameEnds ==
  /\ [](timer >= 0)
  /\ [](timer = 0 => (~gameActive /\ gameOver))
  /\ [][timer' # timer =>
          \/ startGame
          \/ /\ timer' = timer - 1
             /\ gameActive /\ currentQ # noQuestion /\ timer > 0]_vars
  /\ (gameActive /\ currentQ # noQuestion) ~> gameOver

\* C39: handleAnswer changes nothing while the game is not active or while
\* the feedback of the previous answer is shown, so between two draws of a
\* question stars and streak change at most once: they change only when no
\* feedback is shown, and feedback is shown from then on; a wrong answer sets
\* streak to 0 and leaves stars as they are; and stars never go down except
\* by startGame, which begins a new game.
C39_AnswerCountedOnce ==
  [][/\ \A isCorrect \in BOOLEAN :
          (handleAnswer(isCorrect) /\ (~gameActive \/ feedback # "none"))
            => UNCHANGED vars
     /\ ((stars' # stars \/ streak' # streak) /\ ~startGame)
          => (gameActive /\ feedback = "none" /\ feedback' # "none")
     /\ (handleAnswer(FALSE) /\ gameActive /\ feedback = "none")
          => (streak' = 0 /\ stars' = stars /\ feedback' = "wrong")
     /\ (startGame \/ stars' >= stars)]_vars

\* After two correct answers a wrong one: the streak is back to 0, the stars
\* are those of the two correct answers, and the feedback is shown.
C39_WrongAfterTwoCorrect ==
  /\ gameActive
  /\ difficulty = "Easy"
  /\ feedback = "wrong"
  /\ streak = 0 /\ maxStreak = 2
  /\ stars = 33
  /\ Len(timeouts) = 1

====
